---- MODULE Spec2Model ----
\* Model of soCat: the lock-protected JSONL append (run_model.py append_jsonl),
\* the per-model runner (run_model.py main) and the sequential launcher
\* (launch_all_models.py main).
EXTENDS Integers, Sequences, FiniteSets, TLC

\* ---------------------------------------------------------------- bounds
\* Number of operating-system processes of the model.
NumProcs == 2
\* Largest batch handed to append_jsonl by the abstract callers of Spec.
MaxBatch == 2
\* lock_timeout_sec counted in sleep intervals (time.sleep(0.1)); the code's
\* default is 60.0 s, i.e. 600 intervals, scaled down here.
LockTimeout == 2
\* Number of processes of the contention specification SpecContend.
NumContenders == 4
\* Largest number of turns in a generated_text list given to extract_text.
MaxTurns == 2

Procs == 1..NumProcs
Contenders == 1..NumContenders

\* ---------------------------------------------------------------- paths
\* os.path.join(dir, name); a path is kept as its directory and file name.
JoinPath(d, n) == [dir |-> d, name |-> n]
\* os.path.dirname(path)
Dirname(path) == path.dir
\* the path given as --output runs/out.jsonl
RunsPath == JoinPath("runs", "out.jsonl")
\* the path given as --output out.jsonl (no directory part)
BarePath == JoinPath("", "out.jsonl")
\* the path made up from the time stamp when no path is given
StampPath == JoinPath("runs", "<ts>__aggregate.jsonl")
Paths == {RunsPath, BarePath, StampPath}

\* os.makedirs(os.path.dirname(output_path), exist_ok=True) raises
\* FileNotFoundError for the empty directory name; otherwise the file system
\* decides (envOk).
MakedirsOk(path, envOk) == Dirname(path) # "" /\ envOk

\* json.dumps(rec, ensure_ascii=False) + "\n": one text line per record.
JsonLine(rec) == <<"json", rec, "\n">>

\* A line of the output file. `by` is a history tag (the process that wrote the
\* line); it is not part of the file's bytes.
FileLine(p, rec) == [by |-> p, text |-> JsonLine(rec)]

\* A line left in the file by an earlier run.
PriorLine == [by |-> 0, text |-> JsonLine("prior")]

\* A missing file, and the content of a file.
NoFile == [exists |-> FALSE, lines |-> <<>>]
FileOf(ls) == [exists |-> TRUE, lines |-> ls]

\* The file system without any output file.
NoFiles == [q \in Paths |-> NoFile]

\* ---------------------------------------------------------------- state
VARIABLES
    lock,   \* lock[path]: the marker <path>.lock exists
    file,   \* file[path]: the output file at path
    ap,     \* ap[p]: the frame of process p's call of append_jsonl
    run,    \* run[p]: the frame of main() of runner process p
    launch, \* the frame of main() of the launcher
    ext     \* the frame of a call of extract_text

vars == <<lock, file, ap, run, launch, ext>>

\* The variables append_jsonl does not touch.
rvars == <<run, launch, ext>>

\* The frame of a process that is not inside append_jsonl.
\*   pc           position in append_jsonl
\*   output_path  the parameter output_path
\*   records      the parameter records
\*   elapsed      the whole sleep intervals (0.1 s) that have passed since
\*                start = time.time(), capped at LockTimeout; the steps of
\*                the call take time too, so time.time() - start is more
\*                than elapsed intervals whenever it is read
\*   lock_fd      lock_fd is not None
\*   wi           index of the next record of `for rec in records`
\*   fl           number of whole lines of this call that have left the buffers
\*                of f for the file
\*   part         a part of the line after them has left the buffers for the
\*                file as well
\*   exc          exception raised inside the try block ("none" or "WriteError")
\*   result       how the call ended: "ok", or the exception it raised, named by
\*                its origin ("MakedirsError", "LockError" for an exception of
\*                os.open other than FileExistsError, "TimeoutError",
\*                "WriteError")
\*   swallowed    history: the cleanup of the finally block raised
\*   acquired     history: the file when this call created the marker
\*   markerSince  history: the marker has been present from the call's start up
\*                to now, or up to a moment more than the timeout after it
\*   late         history: the call started when the marker on its path was that
\*                of a killed process
NoFrame ==
    [pc |-> "idle", output_path |-> RunsPath, records |-> <<>>, elapsed |-> 0,
     lock_fd |-> FALSE, wi |-> 1, fl |-> 0, part |-> FALSE, exc |-> "none", result |-> "none",
     swallowed |-> FALSE, acquired |-> NoFile, markerSince |-> FALSE,
     late |-> FALSE]

\* The directory of path exists: the launcher has made it, or an output file or
\* a marker lies in it; makedirs(..., exist_ok=True) then succeeds.
DirExists(path) ==
    /\ Dirname(path) # ""
    /\ \/ Dirname(path) = "runs" /\ launch.pc \in {"loop", "wait", "done"}
       \/ \E q \in Paths : Dirname(q) = Dirname(path) /\ (lock[q] \/ file[q].exists)

\* The frame after append_jsonl returned (res = "ok") or raised res: its locals
\* are gone.
Returned(res) == [NoFrame EXCEPT !.pc = "returned", !.result = res]

\* ---------------------------------------------------------------- append_jsonl
\* Mutant: the timeout test never fires.
TimedOutNever(e) == FALSE

\* `time.time() - start > lock_timeout_sec`, the timeout being LockTimeout sleep
\* intervals: time.time() - start is more than e intervals, so the test is
\* true from e = LockTimeout on (after LockTimeout sleeps at the latest).
TimedOut(e) == e >= LockTimeout

\* The marker of path was created by a process that has been killed since.
Orphan(path) ==
    /\ lock[path]
    /\ \E q \in Procs : ap[q].pc = "crashed" /\ ap[q].output_path = path

\* Mutant: the marker of a killed process is taken over.
ExclCreateSteal(path) == ~lock[path] \/ Orphan(path)

\* Mutant: the create fails while a call that has waited longer is waiting.
ExclCreateQueued(path) ==
    /\ ~lock[path]
    /\ \A p \in DOMAIN ap, q \in DOMAIN ap :
          (ap[p].pc = "attempt" /\ ap[q].pc \in {"attempt", "sleep"}
              /\ ap[p].output_path = path /\ ap[q].output_path = path)
          => ap[q].elapsed <= ap[p].elapsed \/ ap[p].elapsed >= LockTimeout

\* Mutant: the create is not exclusive (O_EXCL dropped).
ExclCreateNoExcl(path) == TRUE

\* os.open(lock_path, O_CREAT | O_EXCL | O_WRONLY) succeeds iff no marker exists.
ExclCreateOk(path) == ~lock[path]

\* Mutant: the file is opened with "w", which truncates it.
OpenTruncate(f) == FileOf(<<>>)

\* open(output_path, "a"): creates a missing file, keeps existing content.
OpenAppend(f) == FileOf(f.lines)

\* A part of a line in the file (its front, or its rest behind other text):
\* it is no whole line, and what part it is is left open.
Torn(ln) == [by |-> ln.by, text |-> <<"torn">>]

\* The file after the text lns has been written to it (opened for append, so
\* behind what it holds).
WriteLines(f, lns) == FileOf(f.lines \o lns)

\* What may have reached the file of the lines lns written with f.write when
\* writing them out has failed or was cut short: any number of whole lines
\* from the front, and then possibly a part of the next line.
PartlyWritten(lns) ==
    {SubSeq(lns, 1, k) : k \in 0..Len(lns)}
        \cup {Append(SubSeq(lns, 1, k), Torn(lns[k + 1])) : k \in 0..(Len(lns) - 1)}

\* The abstract batch of n records a caller of Spec hands over.
Batch(n) == [k \in 1..n |-> [seq |-> k]]

\* The call: makedirs, lock_path, start = time.time(), lock_fd = None.
Call(p, path, recs) ==
    /\ ap[p].pc = "idle"
    /\ \E envOk \in (IF DirExists(path) THEN {TRUE} ELSE BOOLEAN) :
         ap' = [ap EXCEPT ![p] =
                  IF MakedirsOk(path, envOk)
                  THEN [NoFrame EXCEPT !.pc = "attempt", !.output_path = path,
                                       !.records = recs, !.markerSince = lock[path],
                                       !.late = Orphan(path)]
                  ELSE Returned("MakedirsError")]
    /\ UNCHANGED <<lock, file, rvars>>

\* Mutant: the timeout error passes through the cleanup of the finally block.
AfterTimeoutUnlink(lk, path) == [lk EXCEPT ![path] = FALSE]

\* The markers after `raise TimeoutError`: the loop is outside the try block,
\* so no cleanup runs and the markers stay as they are.
AfterTimeout(lk, path) == lk

\* One pass of `while True`: the exclusive create and, when it fails with
\* FileExistsError, the timeout test followed by the start of time.sleep(0.1).
\* Any other exception of os.open (envOk false: the directory is gone, no
\* permission, no descriptor left) is not caught: it leaves the call at once,
\* before the try block, so without a marker of its own and without cleanup.
TryLock(p) ==
    /\ ap[p].pc = "attempt"
    /\ \E envOk \in BOOLEAN :
         IF ~envOk
         THEN /\ ap' = [ap EXCEPT ![p] = Returned("LockError")]
              /\ UNCHANGED lock
         ELSE IF ExclCreateOk(ap[p].output_path)
         THEN /\ lock' = [lock EXCEPT ![ap[p].output_path] = TRUE]
              /\ ap' = [ap EXCEPT ![p] = [@ EXCEPT !.pc = "open", !.lock_fd = TRUE,
                                                   !.acquired = file[ap[p].output_path]]]
         ELSE /\ ap' = [ap EXCEPT ![p] = IF TimedOut(ap[p].elapsed)
                                         THEN Returned("TimeoutError")
                                         ELSE [@ EXCEPT !.pc = "sleep"]]
              /\ lock' = IF TimedOut(ap[p].elapsed)
                         THEN AfterTimeout(lock, ap[p].output_path)
                         ELSE lock
    /\ UNCHANGED <<file, rvars>>

\* The frame once the wait is over: its clock and wait history are dropped.
Holding(fr) ==
    [fr EXCEPT !.elapsed = 0, !.markerSince = FALSE, !.late = FALSE]

\* with open(output_path, "a", encoding="utf-8") as f
OpenOutput(p) ==
    /\ ap[p].pc = "open"
    /\ \E ok \in BOOLEAN :
         IF ok
         THEN /\ file' = [file EXCEPT ![ap[p].output_path] = OpenAppend(@)]
              /\ ap' = [ap EXCEPT ![p] = [Holding(@) EXCEPT !.pc =
                           IF Len(ap[p].records) = 0 THEN "flush" ELSE "write"]]
         ELSE /\ ap' = [ap EXCEPT ![p] = [Holding(@) EXCEPT !.pc = "finally",
                                                            !.exc = "WriteError"]]
              /\ UNCHANGED file
    /\ UNCHANGED <<lock, rvars>>

\* Mutant: the lines a to b of the call's text leave the buffers last line
\* first.
WholeReversed(p, a, b) ==
    [k \in 1..(b - a + 1) |-> FileLine(p, ap[p].records[b - k + 1])]

\* The lines a to b of the text the call writes with f.write: one line per
\* record, in the order of records.
Whole(p, a, b) ==
    [k \in 1..(b - a + 1) |-> FileLine(p, ap[p].records[a + k - 1])]

\* How far the text of the call can have got into the file once `last` lines
\* have been handed to f.write: f keeps text in its buffers (of 8192 bytes)
\* and writes it out, in the order written, when a buffer runs full, at
\* flush and at close, and the operating system may take a part of what it is
\* given. A position <<n, h>> is n whole lines and, for h, a part of the line
\* after them; the text never leaves the file again.
Ahead(p, last) ==
    {pos \in (ap[p].fl..last) \X BOOLEAN :
        /\ pos[2] => pos[1] < last
        /\ (pos[1] = ap[p].fl /\ ap[p].part) => pos[2]}

\* The file after the text of the call has got from where it is to position
\* pos: a line whose front is in the file is completed when that front is
\* still the end of the file (else its rest lands behind what was written in
\* between), whole lines follow, and for pos[2] the front of the next line.
WrittenOut(f, p, pos) ==
    LET n == pos[1]
        next == FileLine(p, ap[p].records[ap[p].fl + 1])
        front == IF pos[2] THEN <<Torn(FileLine(p, ap[p].records[n + 1]))>> ELSE <<>>
        joined == Len(f.lines) > 0 /\ f.lines[Len(f.lines)] = Torn(next)
    IN IF n = ap[p].fl
       THEN IF pos[2] /\ ~ap[p].part THEN WriteLines(f, front) ELSE f
       ELSE IF ~ap[p].part
       THEN WriteLines(f, Whole(p, ap[p].fl + 1, n) \o front)
       ELSE IF joined
       THEN WriteLines(FileOf(SubSeq(f.lines, 1, Len(f.lines) - 1)),
                       <<next>> \o Whole(p, ap[p].fl + 2, n) \o front)
       ELSE WriteLines(f, <<Torn(next)>> \o Whole(p, ap[p].fl + 2, n) \o front)

\* One pass of `for rec in records`: f.write(json.dumps(rec) + "\n") hands the
\* line to f, which keeps it in its buffers or writes text out, so that the
\* file gets no further or up to any position of the text handed over so far.
\* f.write raises when json.dumps or the encoding of the line raises (the line
\* is not handed over) or when writing a full buffer out fails (a part of the
\* text, the line at hand included, may be in the file); the with block is
\* left and closing f writes out what its buffers hold, which may fail too.
WriteRecord(p) ==
    /\ ap[p].pc = "write"
    /\ \E ok \in BOOLEAN, pos \in Ahead(p, ap[p].wi) :
         /\ file' = [file EXCEPT ![ap[p].output_path] = WrittenOut(@, p, pos)]
         /\ ap' = [ap EXCEPT ![p] =
                IF ok
                THEN [@ EXCEPT !.wi = @ + 1, !.fl = pos[1], !.part = pos[2],
                               !.pc = IF ap[p].wi = Len(ap[p].records)
                                      THEN "flush" ELSE "write"]
                ELSE [@ EXCEPT !.fl = pos[1], !.part = pos[2],
                               !.pc = "finally", !.exc = "WriteError"]]
    /\ UNCHANGED <<lock, rvars>>

\* f.flush(); os.fsync(f.fileno()); leaving the with block closes f. The
\* flush writes the buffers out, so that all lines are in the file; when the
\* flush or the fsync raises, the file has what had been written out by then
\* and what the close of f adds.
FlushSync(p) ==
    /\ ap[p].pc = "flush"
    /\ \E ok \in BOOLEAN, pos \in Ahead(p, Len(ap[p].records)) :
         /\ ok => pos = <<Len(ap[p].records), FALSE>>
         /\ file' = [file EXCEPT ![ap[p].output_path] = WrittenOut(@, p, pos)]
         /\ ap' = [ap EXCEPT ![p] =
                [@ EXCEPT !.fl = pos[1], !.part = pos[2], !.pc = "finally",
                          !.exc = IF ok THEN "none" ELSE "WriteError"]]
    /\ UNCHANGED <<lock, rvars>>

\* Mutant: the finally block does not unlink.
UnlinkedNever(lk, path, cleanupOk) == lk

\* The markers after the cleanup of the finally block: os.close(lock_fd), then
\* os.unlink(lock_path) if it exists; an exception of either is swallowed and
\* leaves the marker in place.
Unlinked(lk, path, cleanupOk) == IF cleanupOk THEN [lk EXCEPT ![path] = FALSE] ELSE lk

\* Mutant: the finally block swallows the exception of the try block too.
OutcomeSwallowed(e) == "ok"

\* What the call reports after the finally block: the exception of the try
\* block if there is one (an exception of the cleanup never replaces it).
Outcome(e) == IF e = "none" THEN "ok" ELSE e

\* finally: best-effort cleanup, then the call returns or re-raises exc.
Release(p) ==
    /\ ap[p].pc = "finally"
    /\ \E cleanupOk \in BOOLEAN :
         /\ lock' = Unlinked(lock, ap[p].output_path, cleanupOk)
         /\ ap' = [q \in DOMAIN ap |->
               IF q = p
               THEN [Returned(Outcome(ap[p].exc)) EXCEPT !.swallowed = ~cleanupOk]
               ELSE IF ~lock'[ap[q].output_path] /\ ~TimedOut(ap[q].elapsed)
                    THEN [ap[q] EXCEPT !.markerSince = FALSE]
                    ELSE ap[q]]
    /\ UNCHANGED <<file, rvars>>

\* Process p is between its exclusive create and the end of its cleanup.
Holds(p) == ap[p].pc \in {"open", "write", "flush", "finally"}

\* The process is killed between its exclusive create and its cleanup: no
\* finally block runs, so the marker it created stays. Killed in the loop or
\* in the flush, it leaves in the file what had been written out of the
\* buffers of f by then (nothing more than is there, unless text was being
\* written out). The frame keeps the path as history.
Min(a, b) == IF a < b THEN a ELSE b
Crash(p) ==
    /\ Holds(p)
    /\ ap' = [ap EXCEPT ![p] = [NoFrame EXCEPT !.pc = "crashed",
                                               !.output_path = ap[p].output_path,
                                               !.lock_fd = TRUE]]
    /\ IF ap[p].pc \in {"write", "flush"}
       THEN \E pos \in Ahead(p, Min(ap[p].wi, Len(ap[p].records))) :
              file' = [file EXCEPT ![ap[p].output_path] = WrittenOut(@, p, pos)]
       ELSE UNCHANGED file
    /\ UNCHANGED <<lock, rvars>>

\* Process p is waiting for the marker.
Waiting(p) == ap[p].pc \in {"attempt", "sleep"}

\* One sleep interval of wall-clock time passes: waiting calls age and every
\* time.sleep(0.1) under way may return.
Tick ==
    /\ ap' = [p \in DOMAIN ap |->
          IF Waiting(p)
          THEN LET e == IF ap[p].elapsed < LockTimeout THEN ap[p].elapsed + 1
                        ELSE ap[p].elapsed
               IN [ap[p] EXCEPT !.elapsed = e,
                                !.pc = IF @ = "sleep" THEN "attempt" ELSE @]
          ELSE ap[p]]
    /\ UNCHANGED <<lock, file, rvars>>

\* ---------------------------------------------------------------- extract_text
\* Python values a pipeline may return: str, list, dict and None.
PyStr(x) == [t |-> "str", v |-> x]
PyList(items) == [t |-> "list", v |-> items]
PyDict(d) == [t |-> "dict", v |-> d]
PyNone == [t |-> "None", v |-> <<>>]

\* A Python string built by the program: a literal or extracted text, the
\* str() rendering of a value, or a message naming an exception.
Text(x) == [kind |-> "text", of |-> x]
Rendering(val) == [kind |-> "str()", of |-> val]
\* Mutant: the exception leaves extract_text.
ExtractPropagates(e) == [kind |-> "raise", of |-> e]
ExtractError(e) == [kind |-> "ERROR extracting text: ", of |-> e]

\* `"k" in d` for a dict d.
HasKey(d, k) == d.t = "dict" /\ k \in DOMAIN d.v

\* The inner loop `for chunk in content`: the text of the first chunk that has
\* a str under "text" or else under "content"; <<>> when no chunk has.
RECURSIVE ChunkText(_, _)
ChunkText(content, i) ==
    IF i > Len(content) THEN <<>>
    ELSE LET chunk == content[i] IN
         IF HasKey(chunk, "text") /\ chunk.v["text"].t = "str"
         THEN <<chunk.v["text"].v>>
         ELSE IF HasKey(chunk, "content") /\ chunk.v["content"].t = "str"
         THEN <<chunk.v["content"].v>>
         ELSE ChunkText(content, i + 1)

\* The loop `for item in reversed(gen)` from turn i downward: the text found,
\* the rendering of gen when no turn has text, or the exception of item.get on
\* a turn that is no dict.
RECURSIVE ScanTurns(_, _)
ScanTurns(gen, i) ==
    IF i = 0 THEN Rendering(gen)
    ELSE LET item == gen.v[i] IN
         IF item.t # "dict" THEN ExtractError("AttributeError")
         ELSE LET content == IF "content" \in DOMAIN item.v THEN item.v["content"]
                             ELSE PyNone
              IN IF content.t = "str" THEN Text(content.v)
                 ELSE IF content.t = "list" /\ ChunkText(content.v, 1) # <<>>
                 THEN Text(ChunkText(content.v, 1)[1])
                 ELSE ScanTurns(gen, i - 1)

\* Mutant: extract_text always renders its argument.
ExtractTextRender(out) == Rendering(out)

\* extract_text(out)
ExtractText(out) ==
    IF out.t = "list" /\ Len(out.v) = 0 THEN ExtractError("IndexError")
    ELSE LET first == IF out.t = "list" THEN out.v[1] ELSE out IN
         IF HasKey(first, "generated_text")
         THEN LET gen == first.v["generated_text"] IN
              IF gen.t = "str" THEN Text(gen.v)
              ELSE IF gen.t = "list" THEN ScanTurns(gen, Len(gen.v))
              ELSE Rendering(out)
         ELSE Rendering(out)

\* The frame of a call of extract_text: the argument out and, once the call
\* has returned, the string it returned.
NoExtract == [pc |-> "idle", out |-> PyNone, result |-> PyNone]

\* extract_text(out) is called, and returns.
ExtractCall(out) ==
    /\ ext.pc = "idle"
    /\ ext' = [pc |-> "called", out |-> out, result |-> PyNone]
    /\ UNCHANGED <<lock, file, ap, run, launch>>

ExtractReturn ==
    /\ ext.pc = "called"
    /\ ext' = [ext EXCEPT !.pc = "returned", !.result = ExtractText(ext.out)]
    /\ UNCHANGED <<lock, file, ap, run, launch>>

\* ---------------------------------------------------------------- runner
\* The names of system_prompts, in list order.
SystemPrompts == <<"system_prompt", "system_prompt1", "system_prompt2", "system_prompt3">>

\* Image paths of the command line; os.path.basename(p).
SockPng == JoinPath(".", "sock.png")
CatPng == JoinPath(".", "cat.png")
OtherCatPng == JoinPath("other", "cat.png")
Basename(path) == path.name

\* The default of --images.
DefaultImages == <<SockPng, CatPng>>

\* The empty string given as a path.
EmptyPath == JoinPath("", "")

\* The option strings of the parser (-h and --help are argparse's own), as
\* sequences of characters.
OptHelpShort == <<"-", "h">>
OptHelp == <<"-", "-", "h", "e", "l", "p">>
OptModel == <<"-", "-", "m", "o", "d", "e", "l">>
OptToken == <<"-", "-", "t", "o", "k", "e", "n">>
OptOutput == <<"-", "-", "o", "u", "t", "p", "u", "t">>
OptImages == <<"-", "-", "i", "m", "a", "g", "e", "s">>
OptTrust ==
    <<"-", "-", "t", "r", "u", "s", "t", "-", "r", "e", "m", "o", "t", "e", "-", "c", "o", "d", "e">>
OptionStrings ==
    {OptHelpShort, OptHelp, OptModel, OptToken, OptOutput, OptImages, OptTrust}

\* Words are sequences of characters. A character of ASCII is written as
\* itself, any other character by its code point ("U+0661" is the
\* Arabic-Indic digit one).
\*
\* Values of --token: the empty string, "-", "--", strings that begin with "-"
\* and are taken for an option ("-x", "--mod", "-h1", "-1e5", "-1."),
\* abbreviations of more than one option ("--t"), negative numbers ("-1.5",
\* "-.5", "-1", and one in Arabic-Indic digits), and strings with a blank
\* ("- x", "--mod y", "--x y").
NoToken == <<>>
DashToken == <<"-", "x">>
NegToken == <<"-", "1", ".", "5">>
Tokens ==
    {NoToken, DashToken, NegToken, <<"-">>, <<"-", "-">>, <<"-", "-", "m", "o", "d">>,
     <<"-", "-", "t">>, <<"-", "h", "1">>, <<"-", "1", "e", "5">>, <<"-", "1", ".">>,
     <<"-", ".", "5">>, <<"-", "1">>, <<"-", "U+0661">>, <<"-", " ", "x">>,
     <<"-", "-", "m", "o", "d", " ", "y">>, <<"-", "-", "x", " ", "y">>,
     <<"h", "f">>}

\* s is the front of t; the word has the character c; the part of the word
\* before its first "=".
IsPrefix(s, t) == Len(s) <= Len(t) /\ SubSeq(t, 1, Len(s)) = s
Has(word, c) == \E i \in 1..Len(word) : word[i] = c
BeforeEq(word) ==
    IF Has(word, "=")
    THEN SubSeq(word, 1, (CHOOSE i \in 1..Len(word) :
                            /\ word[i] = "="
                            /\ \A j \in 1..(i - 1) : word[j] # "=") - 1)
    ELSE word

\* The characters \d of a pattern matches: the decimal digits of Unicode
\* (category Nd), those of ASCII among them.
UnicodeDigits ==
    {"U+0660", "U+0661", "U+0662", "U+0663", "U+0664", "U+0665", "U+0666", "U+0667",
     "U+0668", "U+0669", "U+06F0", "U+06F1", "U+06F2", "U+06F3", "U+06F4", "U+06F5",
     "U+06F6", "U+06F7", "U+06F8", "U+06F9", "U+07C0", "U+07C1", "U+07C2", "U+07C3",
     "U+07C4", "U+07C5", "U+07C6", "U+07C7", "U+07C8", "U+07C9", "U+0966", "U+0967",
     "U+0968", "U+0969", "U+096A", "U+096B", "U+096C", "U+096D", "U+096E", "U+096F",
     "U+09E6", "U+09E7", "U+09E8", "U+09E9", "U+09EA", "U+09EB", "U+09EC", "U+09ED",
     "U+09EE", "U+09EF", "U+0A66", "U+0A67", "U+0A68", "U+0A69", "U+0A6A", "U+0A6B",
     "U+0A6C", "U+0A6D", "U+0A6E", "U+0A6F", "U+0AE6", "U+0AE7", "U+0AE8", "U+0AE9",
     "U+0AEA", "U+0AEB", "U+0AEC", "U+0AED", "U+0AEE", "U+0AEF", "U+0B66", "U+0B67",
     "U+0B68", "U+0B69", "U+0B6A", "U+0B6B", "U+0B6C", "U+0B6D", "U+0B6E", "U+0B6F",
     "U+0BE6", "U+0BE7", "U+0BE8", "U+0BE9", "U+0BEA", "U+0BEB", "U+0BEC", "U+0BED",
     "U+0BEE", "U+0BEF", "U+0C66", "U+0C67", "U+0C68", "U+0C69", "U+0C6A", "U+0C6B",
     "U+0C6C", "U+0C6D", "U+0C6E", "U+0C6F", "U+0CE6", "U+0CE7", "U+0CE8", "U+0CE9",
     "U+0CEA", "U+0CEB", "U+0CEC", "U+0CED", "U+0CEE", "U+0CEF", "U+0D66", "U+0D67",
     "U+0D68", "U+0D69", "U+0D6A", "U+0D6B", "U+0D6C", "U+0D6D", "U+0D6E", "U+0D6F",
     "U+0DE6", "U+0DE7", "U+0DE8", "U+0DE9", "U+0DEA", "U+0DEB", "U+0DEC", "U+0DED",
     "U+0DEE", "U+0DEF", "U+0E50", "U+0E51", "U+0E52", "U+0E53", "U+0E54", "U+0E55",
     "U+0E56", "U+0E57", "U+0E58", "U+0E59", "U+0ED0", "U+0ED1", "U+0ED2", "U+0ED3",
     "U+0ED4", "U+0ED5", "U+0ED6", "U+0ED7", "U+0ED8", "U+0ED9", "U+0F20", "U+0F21",
     "U+0F22", "U+0F23", "U+0F24", "U+0F25", "U+0F26", "U+0F27", "U+0F28", "U+0F29",
     "U+1040", "U+1041", "U+1042", "U+1043", "U+1044", "U+1045", "U+1046", "U+1047",
     "U+1048", "U+1049", "U+1090", "U+1091", "U+1092", "U+1093", "U+1094", "U+1095",
     "U+1096", "U+1097", "U+1098", "U+1099", "U+17E0", "U+17E1", "U+17E2", "U+17E3",
     "U+17E4", "U+17E5", "U+17E6", "U+17E7", "U+17E8", "U+17E9", "U+1810", "U+1811",
     "U+1812", "U+1813", "U+1814", "U+1815", "U+1816", "U+1817", "U+1818", "U+1819",
     "U+1946", "U+1947", "U+1948", "U+1949", "U+194A", "U+194B", "U+194C", "U+194D",
     "U+194E", "U+194F", "U+19D0", "U+19D1", "U+19D2", "U+19D3", "U+19D4", "U+19D5",
     "U+19D6", "U+19D7", "U+19D8", "U+19D9", "U+1A80", "U+1A81", "U+1A82", "U+1A83",
     "U+1A84", "U+1A85", "U+1A86", "U+1A87", "U+1A88", "U+1A89", "U+1A90", "U+1A91",
     "U+1A92", "U+1A93", "U+1A94", "U+1A95", "U+1A96", "U+1A97", "U+1A98", "U+1A99",
     "U+1B50", "U+1B51", "U+1B52", "U+1B53", "U+1B54", "U+1B55", "U+1B56", "U+1B57",
     "U+1B58", "U+1B59", "U+1BB0", "U+1BB1", "U+1BB2", "U+1BB3", "U+1BB4", "U+1BB5",
     "U+1BB6", "U+1BB7", "U+1BB8", "U+1BB9", "U+1C40", "U+1C41", "U+1C42", "U+1C43",
     "U+1C44", "U+1C45", "U+1C46", "U+1C47", "U+1C48", "U+1C49", "U+1C50", "U+1C51",
     "U+1C52", "U+1C53", "U+1C54", "U+1C55", "U+1C56", "U+1C57", "U+1C58", "U+1C59",
     "U+A620", "U+A621", "U+A622", "U+A623", "U+A624", "U+A625", "U+A626", "U+A627",
     "U+A628", "U+A629", "U+A8D0", "U+A8D1", "U+A8D2", "U+A8D3", "U+A8D4", "U+A8D5",
     "U+A8D6", "U+A8D7", "U+A8D8", "U+A8D9", "U+A900", "U+A901", "U+A902", "U+A903",
     "U+A904", "U+A905", "U+A906", "U+A907", "U+A908", "U+A909", "U+A9D0", "U+A9D1",
     "U+A9D2", "U+A9D3", "U+A9D4", "U+A9D5", "U+A9D6", "U+A9D7", "U+A9D8", "U+A9D9",
     "U+A9F0", "U+A9F1", "U+A9F2", "U+A9F3", "U+A9F4", "U+A9F5", "U+A9F6", "U+A9F7",
     "U+A9F8", "U+A9F9", "U+AA50", "U+AA51", "U+AA52", "U+AA53", "U+AA54", "U+AA55",
     "U+AA56", "U+AA57", "U+AA58", "U+AA59", "U+ABF0", "U+ABF1", "U+ABF2", "U+ABF3",
     "U+ABF4", "U+ABF5", "U+ABF6", "U+ABF7", "U+ABF8", "U+ABF9", "U+FF10", "U+FF11",
     "U+FF12", "U+FF13", "U+FF14", "U+FF15", "U+FF16", "U+FF17", "U+FF18", "U+FF19",
     "U+104A0", "U+104A1", "U+104A2", "U+104A3", "U+104A4", "U+104A5", "U+104A6", "U+104A7",
     "U+104A8", "U+104A9", "U+10D30", "U+10D31", "U+10D32", "U+10D33", "U+10D34", "U+10D35",
     "U+10D36", "U+10D37", "U+10D38", "U+10D39", "U+11066", "U+11067", "U+11068", "U+11069",
     "U+1106A", "U+1106B", "U+1106C", "U+1106D", "U+1106E", "U+1106F", "U+110F0", "U+110F1",
     "U+110F2", "U+110F3", "U+110F4", "U+110F5", "U+110F6", "U+110F7", "U+110F8", "U+110F9",
     "U+11136", "U+11137", "U+11138", "U+11139", "U+1113A", "U+1113B", "U+1113C", "U+1113D",
     "U+1113E", "U+1113F", "U+111D0", "U+111D1", "U+111D2", "U+111D3", "U+111D4", "U+111D5",
     "U+111D6", "U+111D7", "U+111D8", "U+111D9", "U+112F0", "U+112F1", "U+112F2", "U+112F3",
     "U+112F4", "U+112F5", "U+112F6", "U+112F7", "U+112F8", "U+112F9", "U+11450", "U+11451",
     "U+11452", "U+11453", "U+11454", "U+11455", "U+11456", "U+11457", "U+11458", "U+11459",
     "U+114D0", "U+114D1", "U+114D2", "U+114D3", "U+114D4", "U+114D5", "U+114D6", "U+114D7",
     "U+114D8", "U+114D9", "U+11650", "U+11651", "U+11652", "U+11653", "U+11654", "U+11655",
     "U+11656", "U+11657", "U+11658", "U+11659", "U+116C0", "U+116C1", "U+116C2", "U+116C3",
     "U+116C4", "U+116C5", "U+116C6", "U+116C7", "U+116C8", "U+116C9", "U+11730", "U+11731",
     "U+11732", "U+11733", "U+11734", "U+11735", "U+11736", "U+11737", "U+11738", "U+11739",
     "U+118E0", "U+118E1", "U+118E2", "U+118E3", "U+118E4", "U+118E5", "U+118E6", "U+118E7",
     "U+118E8", "U+118E9", "U+11950", "U+11951", "U+11952", "U+11953", "U+11954", "U+11955",
     "U+11956", "U+11957", "U+11958", "U+11959", "U+11C50", "U+11C51", "U+11C52", "U+11C53",
     "U+11C54", "U+11C55", "U+11C56", "U+11C57", "U+11C58", "U+11C59", "U+11D50", "U+11D51",
     "U+11D52", "U+11D53", "U+11D54", "U+11D55", "U+11D56", "U+11D57", "U+11D58", "U+11D59",
     "U+11DA0", "U+11DA1", "U+11DA2", "U+11DA3", "U+11DA4", "U+11DA5", "U+11DA6", "U+11DA7",
     "U+11DA8", "U+11DA9", "U+16A60", "U+16A61", "U+16A62", "U+16A63", "U+16A64", "U+16A65",
     "U+16A66", "U+16A67", "U+16A68", "U+16A69", "U+16AC0", "U+16AC1", "U+16AC2", "U+16AC3",
     "U+16AC4", "U+16AC5", "U+16AC6", "U+16AC7", "U+16AC8", "U+16AC9", "U+16B50", "U+16B51",
     "U+16B52", "U+16B53", "U+16B54", "U+16B55", "U+16B56", "U+16B57", "U+16B58", "U+16B59",
     "U+1D7CE", "U+1D7CF", "U+1D7D0", "U+1D7D1", "U+1D7D2", "U+1D7D3", "U+1D7D4", "U+1D7D5",
     "U+1D7D6", "U+1D7D7", "U+1D7D8", "U+1D7D9", "U+1D7DA", "U+1D7DB", "U+1D7DC", "U+1D7DD",
     "U+1D7DE", "U+1D7DF", "U+1D7E0", "U+1D7E1", "U+1D7E2", "U+1D7E3", "U+1D7E4", "U+1D7E5",
     "U+1D7E6", "U+1D7E7", "U+1D7E8", "U+1D7E9", "U+1D7EA", "U+1D7EB", "U+1D7EC", "U+1D7ED",
     "U+1D7EE", "U+1D7EF", "U+1D7F0", "U+1D7F1", "U+1D7F2", "U+1D7F3", "U+1D7F4", "U+1D7F5",
     "U+1D7F6", "U+1D7F7", "U+1D7F8", "U+1D7F9", "U+1D7FA", "U+1D7FB", "U+1D7FC", "U+1D7FD",
     "U+1D7FE", "U+1D7FF", "U+1E140", "U+1E141", "U+1E142", "U+1E143", "U+1E144", "U+1E145",
     "U+1E146", "U+1E147", "U+1E148", "U+1E149", "U+1E2F0", "U+1E2F1", "U+1E2F2", "U+1E2F3",
     "U+1E2F4", "U+1E2F5", "U+1E2F6", "U+1E2F7", "U+1E2F8", "U+1E2F9", "U+1E950", "U+1E951",
     "U+1E952", "U+1E953", "U+1E954", "U+1E955", "U+1E956", "U+1E957", "U+1E958", "U+1E959",
     "U+1FBF0", "U+1FBF1", "U+1FBF2", "U+1FBF3", "U+1FBF4", "U+1FBF5", "U+1FBF6", "U+1FBF7",
     "U+1FBF8", "U+1FBF9"}
Digits == {"0", "1", "2", "3", "4", "5", "6", "7", "8", "9"} \cup UnicodeDigits

\* argparse's pattern of a negative number, '^-\d+$|^-\d*\.\d+$' (the $ also
\* matches before a newline that ends the word).
AllDigits(word, a, b) == \A i \in a..b : word[i] \in Digits
NegativeNumber(word) ==
    LET w == IF Len(word) > 0 /\ word[Len(word)] = "\n"
             THEN SubSeq(word, 1, Len(word) - 1) ELSE word
        n == Len(w)
    IN /\ n >= 2
       /\ w[1] = "-"
       /\ \/ AllDigits(w, 2, n)
          \/ \E d \in 2..(n - 1) :
               w[d] = "." /\ AllDigits(w, 2, d - 1) /\ AllDigits(w, d + 1, n)

\* The option strings argparse finds for a word that is none itself: for a
\* word that begins with "--", those whose front is the word (up to its "=");
\* for another word that begins with "-", the one that is its first two
\* characters and those whose front is the word.
OptionMatches(word) ==
    IF Len(word) < 2 \/ word[1] # "-" THEN {}
    ELSE IF word[2] = "-" THEN {o \in OptionStrings : IsPrefix(BeforeEq(word), o)}
    ELSE {o \in OptionStrings : o = SubSeq(word, 1, 2) \/ IsPrefix(word, o)}

\* The word is an option string, alone or before an "=".
ExactOption(word) ==
    \/ word \in OptionStrings
    \/ Has(word, "=") /\ BeforeEq(word) \in OptionStrings

\* The word abbreviates more than one option: parse_args ends with an error
\* as soon as it looks at the words, before any option acts.
Ambiguous(word) ==
    /\ word # <<"-", "-">>
    /\ ~ExactOption(word)
    /\ Cardinality(OptionMatches(word)) > 1

\* argparse takes a word for an option, not for the argument of the option
\* before it, when it is "--", or begins with "-" and: it is an option string
\* (alone or before an "="), or it is longer than "-" and is the front of an
\* option string or begins with -h, or is neither a negative number (the
\* parser has no option that looks like one) nor has a blank. A word taken for
\* an option where --token wants its argument is an error ("expected one
\* argument").
OptionLike(word) ==
    /\ Len(word) >= 1
    /\ word[1] = "-"
    /\ \/ word = <<"-", "-">>
       \/ ExactOption(word)
       \/ /\ Len(word) >= 2
          /\ \/ OptionMatches(word) # {}
             \/ ~NegativeNumber(word) /\ ~Has(word, " ")

\* A command line, in this order of words: -h when help is "first", --model,
\* --output, --images, --token (each <<>> when the option is absent, else
\* <<value>>), --trust-remote-code when given, and -h when help is "last"
\* (help is "no" without -h).
Helps == {"no", "first", "last"}
Argv(h, m, o, im, t, trc) ==
    [help |-> h, model |-> m, output |-> o, images |-> im, token |-> t, trust |-> trc]

\* parser.parse_args(): a word that abbreviates several options is an error
\* at once; else the options act in the order of the words: -h prints the
\* help and exits 0, a --token whose value is taken for an option is a usage
\* error that exits 2, and so is a missing --model at the end.
ParseArgs(argv) ==
    IF argv.token # <<>> /\ Ambiguous(argv.token[1]) THEN "usage"
    ELSE IF argv.help = "first" THEN "help"
    ELSE IF argv.token # <<>> /\ OptionLike(argv.token[1]) THEN "usage"
    ELSE IF argv.help = "last" THEN "help"
    ELSE IF argv.model = <<>> THEN "usage"
    ELSE "ok"

\* args.images, and output_path of main(): `if args.output` is false for an
\* absent --output and for an empty one.
ArgImages(argv) == IF argv.images = <<>> THEN DefaultImages ELSE argv.images[1]
ArgOutput(argv) ==
    IF argv.output = <<>> \/ argv.output[1] = EmptyPath THEN StampPath
    ELSE argv.output[1]

\* load_images(image_paths) where decoded[i] tells whether Image.open(p)
\* .convert("RGB") worked for the i-th path: (basename, img or None) pairs.
LoadImagesOf(image_paths, decoded) ==
    [i \in 1..Len(image_paths) |->
        [name |-> Basename(image_paths[i]), img |-> decoded[i]]]

\* any(img is not None for _, img in images)
AnyValidImage(images) == \E i \in 1..Len(images) : images[i].img

\* The strings main() builds.
NoValidImages == Text("ERROR: no valid images could be loaded")
LoadFailed == Text("ERROR: failed to load pipeline: <e>")
GenerationFailed == Text("ERROR during generation: <e>")

\* The result of a well-behaved pipeline call: one chat with the answer last.
ChatOut ==
    PyList(<<PyDict([generated_text |-> PyList(<<
        PyDict([role |-> PyStr("system"),
                content |-> PyList(<<PyDict([type |-> PyStr("text"),
                                             text |-> PyStr("prompt")])>>)]),
        PyDict([role |-> PyStr("assistant"), content |-> PyStr("YES")])>>)])>>)

\* What pipe(text=messages) may do: raise, or return a value.
Raises == [raised |-> TRUE, out |-> PyNone]
Returns(out) == [raised |-> FALSE, out |-> out]
PipeResults == {Raises, Returns(ChatOut)}

\* The try block of the loop body: resp_text for one pipeline call.
RespText(res) == IF res.raised THEN GenerationFailed ELSE ExtractText(res.out)

\* The record main() appends for a pair.
Record(model, prompt_name, img_name, text) ==
    [model |-> model, prompt_name |-> prompt_name, image |-> img_name,
     response_text |-> text]

\* The frame of a process that has not been started.
\*   pc          position in run_model.py
\*   argv        the command line
\*   model       args.model
\*   output_path output_path
\*   image_paths args.images
\*   images      images
\*   pipe        pipe is not None
\*   load_error  load_error (<<>> for None)
\*   pi, ii      indices of the prompt and the image of the next loop pass
\*   records     records
\*   loads       history: number of pipeline(...) calls made
\*   calls       history: number of pipe(...) calls made
\*   code        exit code (-1 while running)
\*   why         history: what ended the process ("PIL", "transformers", "help",
\*               "usage", "print" for a print that raised before the append,
\*               or "append" for the end of main() after the append)
\*   stdio       history: a print of the process raised, or the flush of its
\*               standard streams at exit failed
NoRun ==
    [pc |-> "idle", argv |-> Argv("no", <<>>, <<>>, <<>>, <<>>, FALSE), model |-> "",
     output_path |-> StampPath, image_paths |-> <<>>, images |-> <<>>, pipe |-> FALSE, load_error |-> <<>>,
     pi |-> 1, ii |-> 1, records |-> <<>>, loads |-> 0, calls |-> 0, code |-> -1,
     why |-> "", stdio |-> FALSE]

\* The frame of a process that has exited: its memory is gone.
Exited(code, why, stdio) ==
    [NoRun EXCEPT !.pc = "exited", !.code = code, !.why = why, !.stdio = stdio]

\* The exit status of the process for the exit code of sys.exit or of an
\* uncaught exception: the interpreter flushes stdout and stderr when it
\* exits, and the status is 120 when that fails.
ExitStatus(code, flushOk) == IF flushOk THEN code ELSE 120

\* A print raised outside a try block (stdout or stderr is a closed pipe or a
\* full device): the exception is not caught and the process ends with 1.
StdioRaised(flushOk) == Exited(ExitStatus(1, flushOk), "print", TRUE)

\* The process is started with a command line.
Start(p, argv) ==
    /\ run[p].pc = "idle"
    /\ run' = [run EXCEPT ![p] = [NoRun EXCEPT !.pc = "import", !.argv = argv]]

\* The exit code after the module-level imports: an ImportError of PIL is not
\* caught (exit status 1), one of transformers is caught and exits 1; -1 when
\* both imports work.
ImportExit(pilOk, transformersOk) ==
    IF ~pilOk THEN 1 ELSE IF ~transformersOk THEN 1 ELSE -1

\* The module-level imports.
Import(p) ==
    /\ run[p].pc = "import"
    /\ \E pilOk \in BOOLEAN, transformersOk \in BOOLEAN, flushOk \in BOOLEAN :
         run' = [run EXCEPT ![p] =
                   IF ImportExit(pilOk, transformersOk) = -1
                   THEN [@ EXCEPT !.pc = "parse"]
                   ELSE Exited(ExitStatus(ImportExit(pilOk, transformersOk), flushOk),
                               IF pilOk THEN "transformers" ELSE "PIL", ~flushOk)]
    /\ UNCHANGED <<lock, file, ap, launch, ext>>

\* main(): parse_args and the choice of output_path. argparse prints the help
\* or the usage error itself and exits.
Parse(p) ==
    /\ run[p].pc = "parse"
    /\ \E flushOk \in BOOLEAN :
         run' = [run EXCEPT ![p] =
           CASE ParseArgs(run[p].argv) = "help" ->
                    Exited(ExitStatus(0, flushOk), "help", ~flushOk)
             [] ParseArgs(run[p].argv) = "usage" ->
                    Exited(ExitStatus(2, flushOk), "usage", ~flushOk)
             [] OTHER -> [NoRun EXCEPT !.pc = "load_images",
                                       !.model = run[p].argv.model[1],
                                       !.image_paths = ArgImages(run[p].argv),
                                       !.output_path = ArgOutput(run[p].argv)]]
    /\ UNCHANGED <<lock, file, ap, launch, ext>>

\* images = load_images(args.images), and the two [info] prints of main();
\* load_images prints a warning for an image that fails.
LoadImages(p) ==
    /\ run[p].pc = "load_images"
    /\ \E decoded \in [1..Len(run[p].image_paths) -> BOOLEAN], printOk \in BOOLEAN :
       \E flushOk \in (IF printOk THEN {TRUE} ELSE BOOLEAN) :
         run' = [run EXCEPT ![p] =
                   IF printOk
                   THEN [@ EXCEPT
                           !.pc = "load_pipeline",
                           !.image_paths = <<>>,
                           !.images = LoadImagesOf(run[p].image_paths, decoded)]
                   ELSE StdioRaised(flushOk)]
    /\ UNCHANGED <<lock, file, ap, launch, ext>>

\* Mutant: the inner loop is left after its first pass (break for continue).
NextPairBreak(pi, ii, n) == <<pi + 1, 1>>

\* Mutant: the loops are skipped.
FirstPairNone(n) == <<Len(SystemPrompts) + 1, 1>>

\* The first pair of the nested loops, and the pair after (pi, ii), for n images;
\* pi beyond the prompts means the loops are over.
FirstPair(n) == IF n = 0 THEN <<Len(SystemPrompts) + 1, 1>> ELSE <<1, 1>>
NextPair(pi, ii, n) == IF ii < n THEN <<pi, ii + 1>> ELSE <<pi + 1, 1>>

\* `if any_valid_image:` pipeline(...) or the load error; a load that raised is
\* printed as a warning.
LoadPipeline(p) ==
    /\ run[p].pc = "load_pipeline"
    /\ \E ok \in BOOLEAN, printOk \in BOOLEAN :
       \E flushOk \in (IF printOk THEN {TRUE} ELSE BOOLEAN) :
         \* a print that is not reached does not fail
         /\ (AnyValidImage(run[p].images) /\ ~ok) \/ printOk
         /\ run' = [run EXCEPT ![p] =
                   IF AnyValidImage(run[p].images) /\ ~ok /\ ~printOk
                   THEN StdioRaised(flushOk)
                   ELSE [@ EXCEPT
                    !.pc = IF FirstPair(Len(run[p].images))[1] > Len(SystemPrompts)
                           THEN "append" ELSE "loop",
                    !.pi = FirstPair(Len(run[p].images))[1],
                    !.pipe = AnyValidImage(run[p].images) /\ ok,
                    !.loads = IF AnyValidImage(run[p].images) THEN 1 ELSE 0,
                    !.load_error = IF ~AnyValidImage(run[p].images) THEN <<NoValidImages>>
                                   ELSE IF ok THEN <<>> ELSE <<LoadFailed>>]]
    /\ UNCHANGED <<lock, file, ap, launch, ext>>

\* Mutant: the load error is not tested in the loop.
CallsPipeAlways(load_error) == TRUE

\* The pipeline is called for a pair only when no load error is set.
CallsPipe(load_error) == load_error = <<>>

\* One pass of the inner loop: the record of pair (pi, ii), which is printed.
Pair(p) ==
    /\ run[p].pc = "loop"
    /\ \E res \in PipeResults, printOk \in BOOLEAN :
       \E flushOk \in (IF printOk THEN {TRUE} ELSE BOOLEAN) :
         LET fr == run[p]
             text == IF CallsPipe(fr.load_error) THEN RespText(res) ELSE fr.load_error[1]
             nxt == NextPair(fr.pi, fr.ii, Len(fr.images))
         IN run' = [run EXCEPT ![p] =
                      IF printOk
                      THEN [@ EXCEPT
                      !.records = Append(@, Record(fr.model, SystemPrompts[fr.pi],
                                                   fr.images[fr.ii].name, text)),
                      !.calls = IF CallsPipe(fr.load_error) THEN @ + 1 ELSE @,
                      !.pi = nxt[1],
                      !.ii = nxt[2],
                      !.pc = IF nxt[1] > Len(SystemPrompts) THEN "append" ELSE "loop"]
                      ELSE StdioRaised(flushOk)]
    /\ UNCHANGED <<lock, file, ap, launch, ext>>

\* append_jsonl(records, output_path) is called.
RunAppend(p) ==
    /\ run[p].pc = "append"
    /\ Call(p, run[p].output_path, run[p].records)

\* Mutant: the failure of the append is only logged.
ExitCodeZero(res, savedOk, errOk) == 0

\* The exit code after the call. The try block holds the call and the [saved]
\* print: when both work, sys.exit(0); when either raises, the except branch
\* prints [error] and sys.exit(2); when that print raises too, the exception
\* is not caught and the process ends with 1.
ExitCode(res, savedOk, errOk) ==
    IF res = "ok" /\ savedOk THEN 0 ELSE IF errOk THEN 2 ELSE 1

\* The call has returned or raised: the process prints and exits.
Exit(p) ==
    /\ run[p].pc = "append"
    /\ ap[p].pc = "returned"
    /\ \E savedOk \in BOOLEAN, errOk \in BOOLEAN, flushOk \in BOOLEAN :
         \* a print that is not reached does not fail
         /\ (ap[p].result = "ok" /\ savedOk) => errOk
         /\ ap[p].result # "ok" => savedOk
         /\ run' = [run EXCEPT ![p] =
                Exited(ExitStatus(ExitCode(ap[p].result, savedOk, errOk), flushOk),
                       "append", ~(savedOk /\ errOk /\ flushOk))]
    /\ UNCHANGED <<lock, file, ap, launch, ext>>

\* ---------------------------------------------------------------- launcher
\* MODELS, in list order; one runner process per model, so that the first
\* NumProcs models of the list are launched and runner k is process k.
ModelList ==
    <<"HuggingFaceTB/SmolVLM-256M-Instruct", "LiquidAI/LFM2-VL-450M",
      "LiquidAI/LFM2-VL-1.6B", "Qwen/Qwen2-VL-2B-Instruct",
      "HuggingFaceTB/SmolVLM-Instruct", "Qwen/Qwen2.5-VL-3B-Instruct",
      "google/gemma-3-4b-it">>
MODELS == SubSeq(ModelList, 1, NumProcs)

\* The launcher's frame:
\*   pc          "idle", "loop" (head of the for loop), "wait" (in
\*               subprocess.run), "done" (returned) or "crashed" (makedirs or a
\*               print raised)
\*   i           index in MODELS of the model of the next loop pass
\*   output_path output_path
\*   started     history: the command lines run so far, in order
\*   warned      history: the models a warning was printed for
\*   marker0     history: a marker of the shared output path existed at the start
\*   token       os.environ.get("HF_TOKEN", ""), fixed by the environment the
\*               launcher is started in
NoLaunch ==
    [pc |-> "idle", i |-> 1, output_path |-> StampPath, started |-> <<>>, warned |-> {},
     marker0 |-> FALSE, token |-> NoToken]

\* Mutant: the command line names runs/out.jsonl, not the launcher's
\* output_path.
CmdFixedPath(model, output_path, token) ==
    Argv("no", <<model>>, <<RunsPath>>, <<>>, <<token>>, TRUE)

\* cmd: the runner's command line for a model: --model, --output, --token and
\* --trust-remote-code.
Cmd(model, output_path, token) ==
    Argv("no", <<model>>, <<output_path>>, <<>>, <<token>>, TRUE)

\* main() up to the loop: the shared output path, makedirs("runs") and the
\* [info] print; an exception of either ends the launcher.
LaunchStart ==
    /\ launch.pc = "idle"
    /\ \E envOk \in BOOLEAN, printOk \in BOOLEAN :
         launch' = [launch EXCEPT !.pc = IF envOk /\ printOk THEN "loop" ELSE "crashed",
                                  !.output_path = JoinPath("runs", "<ts>__aggregate.jsonl")]
    /\ UNCHANGED <<lock, file, ap, run, ext>>

\* The head of a loop pass: the [info] print, and subprocess.run(cmd) starts
\* the runner of the next model as a new process. A print that raises ends
\* the launcher before the runner is started.
Spawn ==
    /\ launch.pc = "loop"
    /\ launch.i <= Len(MODELS)
    /\ \E printOk \in BOOLEAN :
         IF printOk
         THEN /\ Start(launch.i, Cmd(MODELS[launch.i], launch.output_path, launch.token))
              /\ launch' = [launch EXCEPT
                     !.pc = "wait",
                     !.started = Append(@, Cmd(MODELS[launch.i], launch.output_path,
                                               launch.token))]
         ELSE /\ launch' = [launch EXCEPT !.pc = "crashed"]
              /\ UNCHANGED run
    /\ UNCHANGED <<lock, file, ap, ext>>

\* Mutant: the loop is left at the first runner that exits with a non-zero code.
NextModelBreak(i, returncode) == IF returncode = 0 THEN i + 1 ELSE Len(MODELS) + 1

\* The loop pass after the one of model i: the return code is only reported.
NextModel(i, returncode) == i + 1

\* subprocess.run returns when the runner has exited; a non-zero return code
\* is reported with a [warn] print and the loop goes on. A print that raises
\* ends the launcher.
Reap ==
    /\ launch.pc = "wait"
    /\ run[launch.i].pc = "exited"
    /\ \E printOk \in BOOLEAN :
         /\ run[launch.i].code = 0 => printOk
         /\ launch' = IF printOk
                       THEN [launch EXCEPT
                               !.pc = "loop",
                               !.i = NextModel(launch.i, run[launch.i].code),
                               !.warned = IF run[launch.i].code # 0
                                          THEN @ \cup {MODELS[launch.i]} ELSE @]
                       ELSE [launch EXCEPT !.pc = "crashed"]
    /\ UNCHANGED <<lock, file, ap, run, ext>>

\* The loop is over: the [done] print, and main() returns.
Finish ==
    /\ launch.pc = "loop"
    /\ launch.i > Len(MODELS)
    /\ \E printOk \in BOOLEAN :
         launch' = [launch EXCEPT !.pc = IF printOk THEN "done" ELSE "crashed"]
    /\ UNCHANGED <<lock, file, ap, run, ext>>

\* ---------------------------------------------------------------- Spec
\* NumProcs processes call append_jsonl once each, concurrently, with an empty
\* batch or one of MaxBatch records, on a file system without output files and
\* markers.
Init ==
    /\ lock = [q \in Paths |-> FALSE]
    /\ file = NoFiles
    /\ ap = [p \in Procs |-> NoFrame]
    /\ run = [p \in Procs |-> NoRun]
    /\ launch = NoLaunch
    /\ ext = NoExtract

CallAny == \E p \in Procs, path \in {RunsPath, BarePath}, n \in {0, MaxBatch} :
              Call(p, path, Batch(n))
TryLockAny == \E p \in Procs : TryLock(p)
OpenOutputAny == \E p \in Procs : OpenOutput(p)
WriteRecordAny == \E p \in Procs : WriteRecord(p)
FlushSyncAny == \E p \in Procs : FlushSync(p)
ReleaseAny == \E p \in Procs : Release(p)

Next ==
    \/ CallAny
    \/ TryLockAny
    \/ OpenOutputAny
    \/ WriteRecordAny
    \/ FlushSyncAny
    \/ ReleaseAny
    \/ Tick

Spec == Init /\ [][Next]_vars

\* ---------------------------------------------------------------- SpecRunner
\* One runner process, started by hand with any command line, on a file system
\* where the output file and a marker left by an earlier run may exist. The
\* lines of a runner are short (they fit into the buffers of f).
Runner == 1

\* The lines of the call are short: the buffers of f do not run full, so
\* f.write writes nothing out and raises only before the line is handed over.
FitsBuffer(p) ==
    /\ ap'[p].pc \in {"write", "flush"} => (ap'[p].fl = 0 /\ ~ap'[p].part)
    /\ (ap[p].pc = "write" /\ ap'[p].pc = "finally") =>
           /\ ap'[p].fl < ap[p].wi
           /\ ap'[p].fl = ap[p].wi - 1 => ~ap'[p].part

\* The command lines tried: every output path with no image and with one
\* image, the path runs/out.jsonl with the default images and with two images
\* of one basename, an empty --output, and every value of --token.
ImageArgs == {<<<<>>>>, <<<<OtherCatPng>>>>}
UserArgvs ==
    {Argv(h, m, o, im, <<>>, FALSE) :
        h \in Helps, m \in {<<>>, <<"model">>},
        o \in {<<>>, <<RunsPath>>, <<BarePath>>}, im \in ImageArgs}
    \cup {Argv("no", <<"model">>, <<RunsPath>>, im, <<>>, FALSE) :
             im \in {<<>>, <<<<CatPng, OtherCatPng>>>>}}
    \cup {Argv("no", <<"model">>, <<EmptyPath>>, <<<<OtherCatPng>>>>, <<>>, FALSE)}
    \cup {Argv(h, m, <<RunsPath>>, <<>>, <<t>>, trc) :
             h \in Helps, m \in {<<>>, <<"model">>}, t \in Tokens, trc \in BOOLEAN}

InitRunner ==
    /\ \E held \in BOOLEAN, prior \in BOOLEAN :
         /\ held => prior
         /\ lock = [q \in Paths |-> held /\ q = RunsPath]
         /\ file = IF prior THEN [NoFiles EXCEPT ![RunsPath] = FileOf(<<PriorLine>>)]
                    ELSE NoFiles
    /\ ap = [p \in Procs |-> NoFrame]
    /\ run = [p \in Procs |-> NoRun]
    /\ launch = NoLaunch
    /\ ext = NoExtract

StartRunner ==
    /\ \E argv \in UserArgvs : Start(Runner, argv)
    /\ UNCHANGED <<lock, file, ap, launch, ext>>

NextRunner ==
    \/ StartRunner
    \/ Import(Runner)
    \/ Parse(Runner)
    \/ LoadImages(Runner)
    \/ LoadPipeline(Runner)
    \/ Pair(Runner)
    \/ RunAppend(Runner)
    \/ TryLock(Runner)
    \/ OpenOutput(Runner)
    \/ WriteRecord(Runner) /\ FitsBuffer(Runner)
    \/ FlushSync(Runner)
    \/ Release(Runner)
    \/ Exit(Runner)
    \/ Tick

SpecRunner == InitRunner /\ [][NextRunner]_vars

\* ---------------------------------------------------------------- SpecFair
\* The callers of Spec on a file system where a marker nobody will remove may
\* lie, with a scheduler that lets every process inside append_jsonl run and
\* with time that goes on.
InitFair ==
    /\ \E held \in BOOLEAN : lock = [q \in Paths |-> held /\ q = RunsPath]
    /\ file = NoFiles
    /\ ap = [p \in Procs |-> NoFrame]
    /\ run = [p \in Procs |-> NoRun]
    /\ launch = NoLaunch
    /\ ext = NoExtract

\* A step of process p inside append_jsonl.
StepInside(p) ==
    TryLock(p) \/ OpenOutput(p) \/ WriteRecord(p) \/ FlushSync(p) \/ Release(p)

\* Every caller appends one record to the same path.
CallFair == \E p \in Procs : Call(p, RunsPath, Batch(1))

NextFair ==
    \/ CallFair
    \/ TryLockAny
    \/ OpenOutputAny
    \/ WriteRecordAny
    \/ FlushSyncAny
    \/ ReleaseAny
    \/ Tick

SpecFair ==
    /\ InitFair
    /\ [][NextFair]_vars
    /\ WF_vars(Tick)
    /\ \A p \in Procs : WF_vars(StepInside(p))

\* ---------------------------------------------------------------- SpecContend
\* NumContenders processes append one record each to the same path. No file
\* operation fails, a process that has the marker finishes before the next
\* sleep interval is over, and a process whose attempt is due makes it at once
\* (no time passes while the marker is held or an attempt is due), so that a
\* waiting process with elapsed >= 1 has slept after a failed create.
NoFailure(p) ==
    /\ ap'[p].exc = "none"
    /\ ~ap'[p].swallowed
    /\ ap'[p].result \in {"none", "ok", "TimeoutError"}

InitContend ==
    /\ lock = [q \in Paths |-> FALSE]
    /\ file = NoFiles
    /\ ap = [p \in Contenders |-> NoFrame]
    /\ run = [p \in Procs |-> NoRun]
    /\ launch = NoLaunch
    /\ ext = NoExtract

CallContend == \E p \in Contenders : Call(p, RunsPath, Batch(1)) /\ NoFailure(p)
StepContend == \E p \in Contenders : StepInside(p) /\ NoFailure(p)
TickFree == Tick /\ \A p \in Contenders : ~Holds(p) /\ ap[p].pc # "attempt"

NextContend == CallContend \/ StepContend \/ TickFree

SpecContend == InitContend /\ [][NextContend]_vars

\* ---------------------------------------------------------------- SpecExtract
\* extract_text is called once on a value a pipeline may return. Chunk lists
\* and turns are drawn from samples, turn lists have up to MaxTurns turns.
TextA == PyDict([type |-> PyStr("text"), text |-> PyStr("A")])
TextB == PyDict([type |-> PyStr("text"), text |-> PyStr("B")])
ContentC == PyDict([content |-> PyStr("C")])
NoStrTextD == PyDict([text |-> PyNone, content |-> PyStr("D")])
ImageChunk == PyDict([type |-> PyStr("image"), image |-> PyNone])
RawChunk == PyStr("raw")

ChunkLists ==
    {<<>>, <<TextA>>, <<TextA, TextB>>, <<ContentC, TextA>>, <<NoStrTextD>>,
     <<ImageChunk>>, <<ImageChunk, TextB>>, <<RawChunk, ContentC>>, <<RawChunk>>}

\* A turn with content, a turn without content, and a turn that is no dict.
Turns ==
    {PyDict([role |-> PyStr("r"), content |-> c]) :
         c \in {PyStr("S"), PyNone} \cup {PyList(cl) : cl \in ChunkLists}}
    \cup {PyDict([role |-> PyStr("r")]), PyStr("turn")}

TurnLists == UNION {[1..n -> Turns] : n \in 0..MaxTurns}

\* The first element of a result: with generated_text (a turn list, a str,
\* None) or without.
Firsts ==
    {PyDict([generated_text |-> g]) :
         g \in {PyStr("G"), PyNone} \cup {PyList(tl) : tl \in TurnLists}}
    \cup {PyDict([text |-> PyStr("T")]), PyStr("first"), PyNone}

\* The values out: a result list, a bare result, an empty list.
Outs == {PyList(<<f>>) : f \in Firsts} \cup Firsts \cup {PyList(<<>>)}

InitExtract ==
    /\ lock = [q \in Paths |-> FALSE]
    /\ file = NoFiles
    /\ ap = [p \in Procs |-> NoFrame]
    /\ run = [p \in Procs |-> NoRun]
    /\ launch = NoLaunch
    /\ ext = NoExtract

ExtractCallAny == \E out \in Outs : ExtractCall(out)

NextExtract == ExtractCallAny \/ ExtractReturn

SpecExtract == InitExtract /\ [][NextExtract]_vars

\* ---------------------------------------------------------------- SpecCrash
\* The callers of Spec, any of which may be killed inside append_jsonl.
CrashAny == \E p \in Procs : Crash(p)

NextCrash == Next \/ CrashAny

SpecCrash == Init /\ [][NextCrash]_vars

\* ---------------------------------------------------------------- SpecLauncher
\* One launcher run. The output file is new (its name holds the time of the
\* start); a marker of that name may exist, and HF_TOKEN may be unset, -x
\* or -1.5. The pipeline of one runner either answers every call or
\* raises on every call, and its lines are short (they fit into the buffers
\* of f); the lines of a batch then differ by prompt and image name only, so
\* f.write raises on the first of them or on none. When writing the buffers
\* out fails, it fails at the first byte (the file stays as it is) or after
\* the last (at os.fsync: all lines are in the file). Any print of the
\* launcher may raise; the standard streams of a runner work, or its stdout
\* is broken from the start and unbuffered, so that its first print raises.
Steady(records) ==
    \A k \in 1..Len(records) : records[k].response_text = records[1].response_text

FirstOrNone(p) == ap'[p].exc = "WriteError" => ap[p].wi = 1

StreamsOrFirst(p) == run'[p].stdio => (run[p].pc = "load_images" /\ run'[p].code = 1)

AllOrNothing(p) ==
    /\ ~ap'[p].part
    /\ ap'[p].fl \in {ap[p].fl, Len(ap[p].records)}

\* The values of HF_TOKEN tried: unset, one the runner's parser rejects and one
\* it takes.
LaunchTokens == {NoToken, DashToken, NegToken}

InitLauncher ==
    /\ \E held \in BOOLEAN, tok \in LaunchTokens :
          /\ lock = [q \in Paths |-> held /\ q = StampPath]
          /\ launch = [NoLaunch EXCEPT !.marker0 = held, !.token = tok]
    /\ file = NoFiles
    /\ ap = [p \in Procs |-> NoFrame]
    /\ run = [p \in Procs |-> NoRun]
    /\ ext = NoExtract

ImportAny == \E p \in Procs : Import(p) /\ StreamsOrFirst(p)
ParseAny == \E p \in Procs : Parse(p) /\ StreamsOrFirst(p)
LoadImagesAny == \E p \in Procs : LoadImages(p) /\ StreamsOrFirst(p)
LoadPipelineAny == \E p \in Procs : LoadPipeline(p) /\ StreamsOrFirst(p)
PairAny == \E p \in Procs : Pair(p) /\ Steady(run'[p].records) /\ StreamsOrFirst(p)
RunAppendAny == \E p \in Procs : RunAppend(p)
ExitAny == \E p \in Procs : Exit(p) /\ StreamsOrFirst(p)
WriteShortAny == \E p \in Procs : WriteRecord(p) /\ FitsBuffer(p) /\ FirstOrNone(p)
FlushShortAny == \E p \in Procs : FlushSync(p) /\ AllOrNothing(p)

NextLauncher ==
    \/ LaunchStart
    \/ Spawn
    \/ Reap
    \/ Finish
    \/ ImportAny
    \/ ParseAny
    \/ LoadImagesAny
    \/ LoadPipelineAny
    \/ PairAny
    \/ RunAppendAny
    \/ TryLockAny
    \/ OpenOutputAny
    \/ WriteShortAny
    \/ FlushShortAny
    \/ ReleaseAny
    \/ ExitAny
    \/ Tick

SpecLauncher == InitLauncher /\ [][NextLauncher]_vars

\* ---------------------------------------------------------------- SpecEndToEnd
\* The launcher runs of SpecLauncher (an image may fail to decode, the load
\* of the pipeline may fail, the pipeline of one runner answers every call or
\* raises on every call, imports, the parsing of the command line, file
\* operations, the cleanup of the marker, the prints of the launcher and the
\* first print of a runner may fail) under a scheduler: every started process
\* is scheduled again and again and time goes on.
\* A step of runner process p.
RunnerStep(p) ==
    \/ Import(p) /\ StreamsOrFirst(p)
    \/ Parse(p) /\ StreamsOrFirst(p)
    \/ LoadImages(p) /\ StreamsOrFirst(p)
    \/ LoadPipeline(p) /\ StreamsOrFirst(p)
    \/ Pair(p) /\ Steady(run'[p].records) /\ StreamsOrFirst(p)
    \/ RunAppend(p)
    \/ /\ StepInside(p) /\ FitsBuffer(p)
       /\ ap[p].pc = "write" => FirstOrNone(p)
       /\ ap[p].pc = "flush" => AllOrNothing(p)
    \/ Exit(p) /\ StreamsOrFirst(p)

\* A step of the launcher.
LauncherStep == LaunchStart \/ Spawn \/ Reap \/ Finish

RunnerStepAny == \E p \in Procs : RunnerStep(p)

NextEndToEnd == LauncherStep \/ RunnerStepAny \/ Tick

SpecEndToEnd ==
    /\ InitLauncher
    /\ [][NextEndToEnd]_vars
    /\ WF_vars(LauncherStep)
    /\ \A p \in Procs : WF_vars(RunnerStep(p))
    /\ WF_vars(Tick)

\* ---------------------------------------------------------------- claims
\* The lines of the shared output file, and the positions process p wrote.
Lines == file[RunsPath].lines
LinesBy(p) == {i \in 1..Len(Lines) : Lines[i].by = p}

\* C1: at most one process at a time is between its successful exclusive create
\* of <output>.lock and its removal of the marker, so the open/write/flush/fsync
\* sections of two calls on the same output path never overlap; the marker
\* exists as long as a process is in that section.
C1_MutualExclusion ==
    \A p \in Procs : Holds(p) =>
        /\ lock[ap[p].output_path]
        /\ \A q \in Procs \ {p} : Holds(q) => ap[q].output_path # ap[p].output_path

\* Two calls contend: one is writing while the other waits for the marker.
C1_Witness ==
    \E p \in Procs, q \in Procs :
        /\ ap[p].pc = "write" /\ ap[p].wi = 2
        /\ ap[q].pc = "sleep" /\ ap[q].output_path = ap[p].output_path

\* The line is a part of a line, left by a write that failed half-way.
IsTorn(ln) == ln.text = <<"torn">>

\* C2: the lines each process appended form one contiguous block of the file,
\* in the order of its batch; no line of another process lies inside the
\* block, and the block of a call that succeeded has whole lines only.
C2_NoInterleaving ==
    \A i \in 1..Len(Lines) : Lines[i].by # 0 =>
        /\ \A j \in i..Len(Lines) : Lines[j].by = Lines[i].by =>
               \A k \in i..j : Lines[k].by = Lines[i].by
        /\ ap[Lines[i].by].result = "ok" => ~IsTorn(Lines[i])
        /\ ~IsTorn(Lines[i]) =>
              Lines[i].text =
                 JsonLine(Batch(MaxBatch)[Cardinality({j \in 1..i : Lines[j].by = Lines[i].by})])

\* Two processes both appended a batch of two or more lines to the same file.
C2_Witness ==
    \E p \in Procs, q \in Procs :
        /\ p # q
        /\ ap[p].result = "ok" /\ ap[q].result = "ok"
        /\ Cardinality(LinesBy(p)) >= 2 /\ Cardinality(LinesBy(q)) >= 2

\* The lines a call of process p writes for a batch.
BatchLines(p, recs) == [k \in 1..Len(recs) |-> FileLine(p, recs[k])]

\* C3: a call that is about to return without error has left the file equal to
\* its content when the marker was created followed by exactly one line per
\* record of the batch; nothing earlier is removed or changed.
C3_AppendsExactlyBatch ==
    \A p \in Procs : (ap[p].pc = "finally" /\ ap[p].exc = "none") =>
        file[ap[p].output_path] =
            FileOf(ap[p].acquired.lines \o BatchLines(p, ap[p].records))

\* A call appended a batch of two or more records behind another process's lines.
C3_Witness ==
    \E p \in Procs :
        /\ ap[p].pc = "finally" /\ ap[p].exc = "none" /\ Len(ap[p].records) >= 2
        /\ \E i \in 1..Len(ap[p].acquired.lines) :
               ap[p].acquired.lines[i].by \in Procs \ {p}

\* C4 as stated: a call for which the marker has existed continuously for
\* longer than the timeout from the call's start fails with a timeout error,
\* so it never gets to create the marker itself.
C4_Original ==
    \A p \in Procs :
        ~(ap[p].pc = "open" /\ ap[p].markerSince /\ ap[p].elapsed >= LockTimeout)

\* C4 amended: an exclusive create that finds the marker (FileExistsError) more
\* than the timeout after the call's start makes the call fail with a timeout
\* error, leaving the file and the marker as they were; a call that failed with
\* a timeout error has written no line.
C4_TimeoutWritesNothing ==
    /\ [](\A p \in Procs : ap[p].result = "TimeoutError" => LinesBy(p) = {})
    /\ [][\A p \in Procs :
            (/\ ap[p].pc = "attempt"
             /\ ap[p].elapsed >= LockTimeout
             /\ lock[ap[p].output_path]
             /\ ap'[p].pc # "attempt"
             /\ ap'[p].result # "LockError")
            => (/\ ap'[p].pc = "returned"
                /\ ap'[p].result = "TimeoutError"
                /\ file' = file
                /\ lock' = lock)]_vars

\* A call timed out while another process's lines are in the file and the
\* marker is still there.
C4_Witness ==
    \E p \in Procs :
        /\ ap[p].result = "TimeoutError"
        /\ lock[RunsPath]
        /\ \E q \in Procs \ {p} : LinesBy(q) # {}

\* C5 as stated: when the write fails after the marker was created, the marker
\* is removed before the call returns and the call reports the write failure.
C5_Original ==
    [][\A p \in Procs :
          (ap[p].pc = "finally" /\ ap[p].exc = "WriteError" /\ ap'[p].pc = "returned")
          => (~lock'[ap[p].output_path] /\ ap'[p].result = "WriteError")]_vars

\* C5 amended: when the write fails after the marker was created, the call
\* reports the write failure whatever the cleanup does, and the marker is
\* removed before the call returns unless the cleanup itself raised, in which
\* case the marker stays.
C5_WriteFailureReported ==
    [][\A p \in Procs :
          (ap[p].pc = "finally" /\ ap[p].exc = "WriteError" /\ ap'[p].pc = "returned")
          => (/\ ap'[p].result = "WriteError"
              /\ lock'[ap[p].output_path] = ap'[p].swallowed)]_vars

\* A write failed after a partial write and the cleanup raised as well.
C5_Witness ==
    \E p \in Procs :
        /\ ap[p].result = "WriteError" /\ ap[p].swallowed
        /\ LinesBy(p) # {}
        /\ lock[RunsPath]

\* The runner is about to hand its batch to append_jsonl, or has.
BatchReady == run[Runner].pc = "append"
NumPrompts == Len(SystemPrompts)
NumImages == Len(run[Runner].images)

\* The index in records of the pair of prompt pi and image ii.
PairIndex(pi, ii) == (pi - 1) * NumImages + ii

\* C6 as stated: the batch handed to the append holds exactly P*I records and
\* each (prompt_name, image) pair is present exactly once.
C6_Original ==
    BatchReady =>
        /\ Len(run[Runner].records) = NumPrompts * NumImages
        /\ \A pi \in 1..NumPrompts, ii \in 1..NumImages :
               Cardinality({k \in 1..Len(run[Runner].records) :
                   /\ run[Runner].records[k].prompt_name = SystemPrompts[pi]
                   /\ run[Runner].records[k].image = run[Runner].images[ii].name}) = 1

\* C6 amended: the batch holds exactly P*I records, the record of prompt pi and
\* image argument ii at place (pi-1)*I + ii, whatever failed; the
\* (prompt_name, image) pairs are distinct when the images' file names are.
C6_OneRecordPerPair ==
    BatchReady =>
        /\ Len(run[Runner].records) = NumPrompts * NumImages
        /\ \A pi \in 1..NumPrompts, ii \in 1..NumImages :
               /\ run[Runner].records[PairIndex(pi, ii)].prompt_name = SystemPrompts[pi]
               /\ run[Runner].records[PairIndex(pi, ii)].image = run[Runner].images[ii].name
        /\ (\A i \in 1..NumImages, j \in 1..NumImages :
                i # j => run[Runner].images[i].name # run[Runner].images[j].name)
           => \A k \in 1..Len(run[Runner].records), l \in 1..Len(run[Runner].records) :
                 (/\ run[Runner].records[k].prompt_name = run[Runner].records[l].prompt_name
                  /\ run[Runner].records[k].image = run[Runner].records[l].image) => k = l

\* A batch of eight records where one image failed to decode, a generation
\* failed and another generation gave text.
C6_Witness ==
    /\ BatchReady
    /\ NumImages = 2
    /\ \E i \in 1..2 : ~run[Runner].images[i].img
    /\ \E k \in 1..8, l \in 1..8 :
          /\ run[Runner].records[k].response_text = GenerationFailed
          /\ run[Runner].records[l].response_text = Text("YES")

\* The error placeholders main() and extract_text produce.
IsErrorText(text) ==
    \/ text \in {NoValidImages, LoadFailed, GenerationFailed}
    \/ text.kind = "ERROR extracting text: "

\* C7: every record produced for an image that failed to decode carries an
\* error placeholder as response_text, also when another image decoded and the
\* pipeline loaded.
C7_FailedImageIsError ==
    BatchReady =>
        \A pi \in 1..NumPrompts, ii \in 1..NumImages :
            ~run[Runner].images[ii].img =>
                IsErrorText(run[Runner].records[PairIndex(pi, ii)].response_text)

\* C8: when the pipeline load raised, or no image decoded (and then the load is
\* not attempted), the pipeline is never called, all P*I records carry the same
\* load-error string, and an append about to return without error has added
\* exactly these P*I lines to the file.
C8_LoadErrorBatch ==
    LET fr == run[Runner] IN
    (BatchReady /\ (~AnyValidImage(fr.images) \/ (fr.loads = 1 /\ ~fr.pipe))) =>
        /\ ~AnyValidImage(fr.images) => fr.loads = 0
        /\ fr.calls = 0
        /\ Len(fr.records) = NumPrompts * NumImages
        /\ \A k \in 1..Len(fr.records) :
              /\ fr.records[k].response_text \in {NoValidImages, LoadFailed}
              /\ fr.records[k].response_text = fr.records[1].response_text
        /\ (ap[Runner].pc = "finally" /\ ap[Runner].exc = "none") =>
              /\ Len(file[fr.output_path].lines) =
                     Len(ap[Runner].acquired.lines) + NumPrompts * NumImages
              /\ file[fr.output_path].lines =
                     ap[Runner].acquired.lines \o BatchLines(Runner, fr.records)

\* The pipeline load raised with two images, one of them decoded, and the
\* append is about to return without error behind a line of an earlier run.
C8_Witness ==
    /\ BatchReady
    /\ NumImages = 2 /\ AnyValidImage(run[Runner].images)
    /\ run[Runner].loads = 1 /\ ~run[Runner].pipe
    /\ ap[Runner].pc = "finally" /\ ap[Runner].exc = "none"
    /\ ap[Runner].acquired.lines = <<PriorLine>>

\* The step by which the runner process exits.
Exits == run[Runner].pc # "exited" /\ run'[Runner].pc = "exited"
AppendOk == ap[Runner].pc = "returned" /\ ap[Runner].result = "ok"
AppendFailed == ap[Runner].pc = "returned" /\ ap[Runner].result # "ok"

\* Nothing has run: no image loaded, no record, no call of append_jsonl.
NothingRan ==
    /\ run[Runner].images = <<>> /\ run[Runner].records = <<>>
    /\ ap[Runner].pc = "idle"

\* C9 as stated: exit code 0 exactly when the append call succeeded, 2 exactly
\* when it failed, 1 only when the inference dependency is missing, and then
\* nothing has run.
C9_Original ==
    [][Exits =>
          /\ run'[Runner].code = 0 <=> AppendOk
          /\ run'[Runner].code = 2 <=> AppendFailed
          /\ run'[Runner].code = 1 => (run'[Runner].why = "transformers" /\ NothingRan)]_vars

\* What parse_args of the runner does with the sample words of Tokens after
\* --token, as observed on the parser of main(): it takes these for the value,
\* reports this one as an ambiguous abbreviation, and takes every other for an
\* option, so that --token lacks its argument.
TakenForValue ==
    {NoToken, NegToken, <<"-">>, <<"-", ".", "5">>, <<"-", "1">>, <<"-", "U+0661">>,
     <<"-", " ", "x">>, <<"-", "-", "m", "o", "d", " ", "y">>,
     <<"-", "-", "x", " ", "y">>, <<"h", "f">>}
AmbiguousWords == {<<"-", "-", "t">>}

\* The command line of the runner before parse_args: its --token word, if any,
\* is taken for the value; -h is reached (first on the line: unless a word is
\* ambiguous; last: unless --token lacks its argument); a usage error.
TokenGiven == run[Runner].argv.token # <<>>
TokenTaken == ~TokenGiven \/ run[Runner].argv.token[1] \in TakenForValue
HelpReached ==
    \/ /\ run[Runner].argv.help = "first"
       /\ ~TokenGiven \/ run[Runner].argv.token[1] \notin AmbiguousWords
    \/ run[Runner].argv.help = "last" /\ TokenTaken
UsageError == ~HelpReached /\ (~TokenTaken \/ run[Runner].argv.model = <<>>)

\* C9 amended: as long as no print of the runner raises and the flush of its
\* standard streams at exit works, a runner that got past its imports and
\* parse_args exits with 0 exactly when its append call succeeded and with 2
\* exactly when it failed; otherwise it exits with 1 because an import failed
\* (transformers, or PIL), with 0 because the parser reached -h before any
\* usage error, or with 2 on a usage error (--model missing, a --token word
\* taken for an option, an ambiguous abbreviation), and then nothing has run.
\* When a print raises or the flush fails, the exit code is 1, 120, or 2 after
\* an append call that succeeded; a print that raises before the append call
\* ends the runner with no append attempted. No step before the call of
\* append_jsonl changes the output file or the marker.
C9_ExitCodes ==
    /\ [][Exits =>
            CASE run'[Runner].why = "append" ->
                   /\ ap[Runner].pc = "returned"
                   /\ IF ~run'[Runner].stdio
                      THEN /\ run'[Runner].code = 0 <=> AppendOk
                           /\ run'[Runner].code = 2 <=> AppendFailed
                           /\ run'[Runner].code \in {0, 2}
                      ELSE /\ run'[Runner].code \in {1, 2, 120}
                           /\ run'[Runner].code = 2 => AppendOk
              [] run'[Runner].why = "print" ->
                   /\ ap[Runner].pc = "idle"
                   /\ run'[Runner].stdio
                   /\ run'[Runner].code \in {1, 120}
              [] OTHER ->
                   /\ NothingRan
                   /\ run'[Runner].why \in {"PIL", "transformers"} <=>
                          run[Runner].pc = "import"
                   /\ run'[Runner].why = "help" <=>
                          (run[Runner].pc = "parse" /\ HelpReached)
                   /\ run'[Runner].why = "usage" <=>
                          (run[Runner].pc = "parse" /\ UsageError)
                   /\ IF ~run'[Runner].stdio
                      THEN /\ run'[Runner].code = 1 <=>
                                 run'[Runner].why \in {"PIL", "transformers"}
                           /\ run'[Runner].code = 0 <=> run'[Runner].why = "help"
                           /\ run'[Runner].code = 2 <=> run'[Runner].why = "usage"
                      ELSE run'[Runner].code = 120]_vars
    /\ [][(run[Runner].pc = "parse" /\ run'[Runner].pc # "parse") =>
            (Exits <=> (HelpReached \/ UsageError))]_vars
    /\ [][ap[Runner].pc = "idle" => (file' = file /\ lock' = lock)]_vars

\* The runner exited with 0 after appending a batch of error records only.
C9_Witness ==
    /\ run[Runner].pc = "exited" /\ run[Runner].code = 0 /\ run[Runner].why = "append"
    /\ ~run[Runner].stdio
    /\ Len(file[RunsPath].lines) = 9
    /\ \A i \in 2..9 : file[RunsPath].lines[i].text[2].response_text = GenerationFailed

\* A runner process is alive from its start to its exit.
Alive(p) == run[p].pc \notin {"idle", "exited"}
NumStarted == Len(launch.started)

\* C10: the launcher starts one runner per model of MODELS, in list order and
\* all with the launcher's output path; runner k+1 is started only after
\* runner k has exited, so at most one runner is alive; whatever the exit
\* code of a runner, the launcher goes on with the next model (unless it is
\* ended by an exception of its own print) and leaves its loop only after it
\* has started a runner for every model.
C10_SequentialLaunch ==
    /\ [](/\ NumStarted <= Len(MODELS)
          /\ \A k \in 1..NumStarted :
                /\ launch.started[k] = Cmd(MODELS[k], launch.output_path, launch.token)
                /\ k < NumStarted => run[k].pc = "exited"
          /\ \A p \in Procs : Alive(p) <=> (p = NumStarted /\ run[p].pc # "exited")
          /\ \A p \in Procs :
                run[p].pc \in {"load_images", "load_pipeline", "loop", "append"} =>
                    /\ run[p].model = MODELS[p]
                    /\ run[p].output_path = launch.output_path
          /\ Cardinality({p \in Procs : Alive(p)}) <= 1
          /\ launch.pc \in {"loop", "wait"} => launch.i \in {NumStarted, NumStarted + 1}
          /\ launch.pc = "done" => NumStarted = Len(MODELS))
    /\ [][(launch.pc = "wait" /\ launch'.pc # "wait") =>
            \/ launch'.pc = "crashed"
            \/ launch'.pc = "loop" /\ launch'.i = launch.i + 1]_vars

\* The launcher has finished although its first runner exited with a non-zero
\* code; the last runner exited with 0 after appending to the shared file.
C10_Witness ==
    /\ launch.pc = "done"
    /\ run[1].code # 0
    /\ MODELS[1] \in launch.warned
    /\ run[Len(MODELS)].code = 0 /\ run[Len(MODELS)].why = "append"
    /\ Len(file[StampPath].lines) > 0

\* The lines of the runner's output file, and those the runner wrote, in
\* file order.
RunnerFile == file[run[Runner].output_path].lines
IsOwn(ln) == ln.by = Runner
OwnLines == SelectSeq(RunnerFile, IsOwn)

\* The runner's append call has failed and the runner has not exited yet.
AppendHasFailed == run[Runner].pc = "append" /\ AppendFailed

\* C11 as stated: whenever the runner's append call has failed, none of the
\* runner's records is in the output file.
C11_Original == AppendHasFailed => OwnLines = <<>>

\* C11 amended: after a failed append call the runner's lines in the file are
\* a prefix of its batch, in batch order, possibly followed by a part of the
\* next line: nothing when the call failed before the file was opened
\* (makedirs, the create of the marker, lock timeout), possibly all of the
\* batch after a write failure; the process then exits with code 2 (with 1
\* or 120 when its print of the error raises or the flush of its standard
\* streams at exit fails) and its records are gone.
C11_FailedAppend ==
    /\ [](AppendHasFailed =>
            /\ OwnLines \in PartlyWritten(BatchLines(Runner, run[Runner].records))
            /\ ap[Runner].result \in {"MakedirsError", "LockError", "TimeoutError"} =>
                   OwnLines = <<>>)
    /\ [][(AppendHasFailed /\ run'[Runner] # run[Runner]) =>
            /\ run'[Runner].pc = "exited"
            /\ run'[Runner].code \in (IF run'[Runner].stdio THEN {1, 120} ELSE {2})
            /\ run'[Runner].records = <<>>
            /\ file' = file]_vars

\* The append call failed by a write failure after three of eight lines and a
\* part of the fourth were written behind a line of an earlier run.
C11_Witness ==
    /\ AppendHasFailed
    /\ ap[Runner].result = "WriteError"
    /\ Len(run[Runner].records) = 8
    /\ Len(OwnLines) = 4 /\ IsTorn(OwnLines[4]) /\ ~IsTorn(OwnLines[3])
    /\ RunnerFile[1] = PriorLine

\* Process p is inside a call of append_jsonl on path.
CallOn(p, path) ==
    /\ ap[p].pc \in {"attempt", "sleep", "open", "write", "flush", "finally"}
    /\ ap[p].output_path = path

\* C12: once a process has been killed between creating the marker and removing
\* it, the marker stays for ever and the file is not written again; no call on
\* that path is past the lock, and a call on that path, whenever it started, can
\* only go on waiting or raise the timeout error (or the error of an os.open
\* that failed for another reason than the marker).
C12_OrphanLock ==
    [][\A path \in Paths : Orphan(path) =>
          /\ Orphan(path)'
          /\ file'[path] = file[path]
          /\ \A p \in Procs :
                /\ CallOn(p, path) => Waiting(p)
                /\ (CallOn(p, path) /\ ap'[p] # ap[p]) =>
                       \/ Waiting(p)'
                       \/ ap'[p] = Returned("TimeoutError")
                       \/ ap'[p] = Returned("LockError")]_vars

\* A process was killed after writing a line; a call started afterwards has
\* waited longer than the timeout and is about to make its last attempt.
C12_Witness ==
    /\ Orphan(RunsPath)
    /\ \E i \in 1..Len(Lines) : Lines[i].by \in Procs /\ ap[Lines[i].by].pc = "crashed"
    /\ \E p \in Procs :
          ap[p].late /\ ap[p].pc = "attempt" /\ TimedOut(ap[p].elapsed)

\* The processes between their exclusive create and their release on path.
Holders(path) == {p \in Procs : Holds(p) /\ ap[p].output_path = path}

\* C13 as stated: the marker of a path exists if and only if exactly one
\* process is between its exclusive create and its release on that path.
C13_Original ==
    \A path \in Paths : lock[path] <=> Cardinality(Holders(path)) = 1

\* C13 amended: without kills, a path never has two holders and its marker
\* exists while it has one; a marker without holder exists only after the
\* cleanup of some call raised and was swallowed; so once every call has
\* returned and no cleanup raised, no marker exists.
C13_MarkerMeansHeld ==
    /\ \A path \in Paths :
          /\ Cardinality(Holders(path)) <= 1
          /\ Holders(path) # {} => lock[path]
          /\ (lock[path] /\ Holders(path) = {}) =>
                 \E p \in Procs : ap[p].pc = "returned" /\ ap[p].swallowed
    /\ (\A p \in Procs : ap[p].pc = "returned" /\ ~ap[p].swallowed) =>
           \A path \in Paths : ~lock[path]

\* Every call has returned and no cleanup raised: one call wrote its batch,
\* another failed in a write, and the marker is gone.
C13_Witness ==
    /\ \A p \in Procs : ap[p].pc = "returned" /\ ~ap[p].swallowed
    /\ \E p \in Procs : ap[p].result = "ok" /\ LinesBy(p) # {}
    /\ \E p \in Procs : ap[p].result = "WriteError"
    /\ ~lock[RunsPath]

\* The matching field of a chunk: its "text" if that is a str, else its
\* "content" if that is a str; <<>> for a chunk without either and for a chunk
\* that is no dict.
ChunkField(chunk) ==
    IF chunk.t # "dict" THEN <<>>
    ELSE IF "text" \in DOMAIN chunk.v /\ chunk.v["text"].t = "str"
    THEN <<chunk.v["text"].v>>
    ELSE IF "content" \in DOMAIN chunk.v /\ chunk.v["content"].t = "str"
    THEN <<chunk.v["content"].v>>
    ELSE <<>>

\* The matching fields of chunks i.. of a chunk list, in list order.
RECURSIVE ChunkFields(_, _)
ChunkFields(chunks, i) ==
    IF i > Len(chunks) THEN <<>>
    ELSE ChunkField(chunks[i]) \o ChunkFields(chunks, i + 1)

\* The matching fields of a turn, in order: its content if that is a str, the
\* matching fields of its chunks if it is a list.
TurnFields(turn) ==
    IF turn.t # "dict" \/ "content" \notin DOMAIN turn.v THEN <<>>
    ELSE IF turn.v["content"].t = "str" THEN <<turn.v["content"].v>>
    ELSE IF turn.v["content"].t = "list" THEN ChunkFields(turn.v["content"].v, 1)
    ELSE <<>>

\* The matching fields of turns i.. of a turn list, in order.
RECURSIVE AllFields(_, _)
AllFields(turns, i) ==
    IF i > Len(turns) THEN <<>>
    ELSE TurnFields(turns[i]) \o AllFields(turns, i + 1)

\* extract_text has returned from a call on a nested result list: a list whose
\* first element is a dict with a list under "generated_text".
NestedReturned ==
    /\ ext.pc = "returned"
    /\ ext.out.t = "list" /\ Len(ext.out.v) > 0
    /\ HasKey(ext.out.v[1], "generated_text")
    /\ ext.out.v[1].v["generated_text"].t = "list"
GenOf(out) == out.v[1].v["generated_text"]

\* C14 as stated: on a nested result list extract_text returns the last
\* matching text field when there is one, and else the string rendering of the
\* turn list.
C14_Original ==
    NestedReturned =>
        LET all == AllFields(GenOf(ext.out).v, 1) IN
        ext.result = IF all # <<>> THEN Text(all[Len(all)])
                     ELSE Rendering(GenOf(ext.out))

\* The most recent turn that has a matching field (0 when none has).
LastMatch(turns) ==
    LET ms == {i \in 1..Len(turns) : TurnFields(turns[i]) # <<>>}
    IN IF ms = {} THEN 0 ELSE CHOOSE i \in ms : \A j \in ms : j <= i

\* C14 amended: extract_text returns the first matching field of the most
\* recent turn that has one, and the string rendering of the turn list when no
\* turn has one; but when a turn more recent than that is no dict, it returns
\* an extraction-error string.
C14_LastMatchingTurn ==
    NestedReturned =>
        LET turns == GenOf(ext.out).v
            last == LastMatch(turns)
        IN ext.result =
             IF \E j \in (last + 1)..Len(turns) : turns[j].t # "dict"
             THEN ExtractError("AttributeError")
             ELSE IF last > 0 THEN Text(TurnFields(turns[last])[1])
             ELSE Rendering(GenOf(ext.out))

\* The call returned "A" for a list of two turns, the older with a content
\* string and the more recent with the text chunks "A" and "B".
C14_Witness ==
    /\ NestedReturned
    /\ Len(GenOf(ext.out).v) = 2
    /\ TurnFields(GenOf(ext.out).v[1]) = <<"S">>
    /\ TurnFields(GenOf(ext.out).v[2]) = <<"A", "B">>
    /\ ext.result = Text("A")

\* What extract_text returns is a str: extracted text, a rendering, or an
\* extraction-error message.
IsPyString(r) == r.kind \in {"text", "str()", "ERROR extracting text: "}

\* The body of extract_text raises on out: out[0] on an empty list, or
\* item.get on a turn that is no dict and is met before a matching turn.
RaisesInside(out) ==
    \/ out.t = "list" /\ Len(out.v) = 0
    \/ /\ out.t = "list" /\ Len(out.v) > 0
       /\ HasKey(out.v[1], "generated_text")
       /\ out.v[1].v["generated_text"].t = "list"
       /\ \E j \in (LastMatch(GenOf(out).v) + 1)..Len(GenOf(out).v) :
              GenOf(out).v[j].t # "dict"
    \/ /\ out.t = "dict"
       /\ HasKey(out, "generated_text")
       /\ out.v["generated_text"].t = "list"
       /\ LET turns == out.v["generated_text"].v IN
          \E j \in (LastMatch(turns) + 1)..Len(turns) : turns[j].t # "dict"

\* C15: whatever value it is called on, extract_text returns a str and raises
\* nothing; it returns an extraction-error message exactly when its body
\* raised.
C15_Total ==
    ext.pc = "returned" =>
        /\ IsPyString(ext.result)
        /\ ext.result.kind = "ERROR extracting text: " <=> RaisesInside(ext.out)

\* The call on an empty list has returned the message of the IndexError, and
\* so would a call on a bare result whose only turn is no dict.
C15_Witness ==
    /\ ext.pc = "returned"
    /\ ext.out = PyList(<<>>)
    /\ ext.result = ExtractError("IndexError")
    /\ RaisesInside(PyDict([generated_text |-> PyList(<<PyStr("turn")>>)]))

\* The prompt and the image of the k-th pair of the nested loops (prompts
\* outer, images inner).
PromptOf(k) == SystemPrompts[((k - 1) \div NumImages) + 1]
ImageOf(k) == run[Runner].images[((k - 1) % NumImages) + 1].name

\* C16: the runner's records are those of the first pairs in nested order
\* (prompts outer, images inner); append_jsonl is called only when every pair
\* has its record, and only once; the runner's lines in the file are a prefix
\* of its batch in batch order (with a part of the next line at most, after a
\* failure), the whole batch after a call without error;
\* no step before the call changes the output file or a marker.
C16_OrderedSingleAppend ==
    /\ [](/\ \A k \in 1..Len(run[Runner].records) :
                /\ run[Runner].records[k].prompt_name = PromptOf(k)
                /\ run[Runner].records[k].image = ImageOf(k)
          /\ run[Runner].pc \in {"load_images", "load_pipeline", "loop"} =>
                ap[Runner].pc = "idle"
          /\ ap[Runner].pc # "idle" =>
                \/ run[Runner].pc = "exited" /\ run[Runner].why = "append"
                \/ /\ BatchReady
                   /\ Len(run[Runner].records) = NumPrompts * NumImages
                   /\ OwnLines \in PartlyWritten(BatchLines(Runner, run[Runner].records))
                   /\ AppendOk => OwnLines = BatchLines(Runner, run[Runner].records))
    /\ [][/\ ap[Runner].pc = "idle" => (file' = file /\ lock' = lock)
          /\ ap[Runner].pc # "idle" => ap'[Runner].pc # "idle"
          /\ Exits /\ run'[Runner].why = "append" => ap[Runner].pc = "returned"]_vars

\* The single call has returned without error: the file holds the line of an
\* earlier run and then the runner's eight lines in nested order, with an
\* answer and a generation failure among them.
C16_Witness ==
    /\ BatchReady /\ AppendOk
    /\ NumImages = 2
    /\ RunnerFile = <<PriorLine>> \o BatchLines(Runner, run[Runner].records)
    /\ run[Runner].records[2].response_text = Text("YES")
    /\ run[Runner].records[3].response_text = GenerationFailed

\* Process p is inside a call of append_jsonl.
Inside(p) == ap[p].pc \in {"attempt", "sleep", "open", "write", "flush", "finally"}

\* C17: with every process inside append_jsonl scheduled again and again and
\* with time going on, every call of append_jsonl returns or raises in the
\* end, also when the marker is never removed.
C17_CallReturns == \A p \in Procs : Inside(p) ~> ap[p].pc = "returned"

\* A marker nobody removes lies on the path, and every call has ended with the
\* timeout error.
C17_Witness ==
    /\ lock[RunsPath]
    /\ file[RunsPath] = NoFile
    /\ \A p \in Procs : ap[p] = Returned("TimeoutError")

\* C18: the marker gives no queue: whenever the marker of its path is absent,
\* a process that attempts the create gets the lock, however short it has
\* waited and whoever has waited longer; so a later caller can overtake an
\* earlier one, and a caller can time out although all holders release at once.
C18_NoFairness ==
    [][\A p \in Contenders :
          (/\ ap[p].pc = "attempt"
           /\ ~lock[ap[p].output_path]
           /\ ap'[p].pc # "attempt") =>
              /\ ap'[p].pc = "open"
              /\ \A q \in Contenders \ {p} : Waiting(q) => Waiting(q)']_vars

\* Process q, which found the marker and started to wait later, has the marker
\* while process p, which found it earlier, still waits and is past the
\* timeout, so that its next attempt raises the timeout error; the other processes have appended
\* and released, no cleanup failed and nobody was killed.
C18_Witness ==
    \E p \in Contenders : \E q \in Contenders \ {p} :
        /\ ap[q].pc = "open" /\ ap[q].elapsed >= 1
        /\ ap[p].pc = "attempt" /\ ap[p].elapsed > ap[q].elapsed
        /\ TimedOut(ap[p].elapsed)
        /\ ~ap[p].markerSince
        /\ \A r \in Contenders \ {p, q} :
              ap[r].pc = "returned" /\ ap[r].result = "ok" /\ ~ap[r].swallowed
        /\ Len(Lines) = NumContenders - 2

\* C19: a call that fails while acquiring the lock (by the timeout error, or by
\* another error of os.open) changes neither a marker nor a file; a marker is
\* removed only by the finally block of a call that created it and is the only
\* holder on that path.
C19_TimeoutLeavesMarker ==
    [][/\ \A p \in Procs :
             (Waiting(p) /\ ap'[p].pc = "returned") =>
                 /\ ap'[p].result \in {"TimeoutError", "LockError"}
                 /\ lock' = lock /\ file' = file
       /\ \A path \in Paths :
             (lock[path] /\ ~lock'[path]) =>
                 \E p \in Procs :
                    /\ Holders(path) = {p}
                    /\ ap[p].pc = "finally" /\ ap[p].lock_fd
                    /\ ap'[p].pc = "returned"]_vars

\* A call has raised the timeout error while another process is writing under
\* the marker it created, and the marker is still there.
C19_Witness ==
    /\ lock[RunsPath]
    /\ \E p \in Procs : ap[p] = Returned("TimeoutError")
    /\ \E q \in Procs : ap[q].pc = "write" /\ ap[q].wi = 2 /\ ap[q].output_path = RunsPath

\* The shared output file of the launcher run, and its size after M runners
\* with P prompts and the two default images.
SharedLines == file[StampPath].lines
BlockLen == Len(SystemPrompts) * Len(DefaultImages)

\* Line i belongs to the block of the model at place ((i-1) div P*I) + 1 of
\* MODELS and is that runner's record of its pair in nested order.
InBlockOrder(i) ==
    LET k == ((i - 1) \div BlockLen) + 1
        j == ((i - 1) % BlockLen) + 1
        rec == SharedLines[i].text[2]
    IN /\ SharedLines[i].by = k
       /\ rec.model = MODELS[k]
       /\ rec.prompt_name = SystemPrompts[((j - 1) \div Len(DefaultImages)) + 1]
       /\ rec.image = Basename(DefaultImages[((j - 1) % Len(DefaultImages)) + 1])

\* No marker at the start, no process crashes (the launcher at makedirs or at
\* a print, a runner at one of its imports or at a print) and no write fails,
\* to the file or to the standard streams, nor makedirs or the create of the
\* marker for another reason than the marker.
C20_Base ==
    /\ ~launch.marker0
    /\ launch.pc # "crashed"
    /\ \A p \in Procs :
          /\ run[p].why \notin {"PIL", "transformers", "print"}
          /\ ~run[p].stdio
          /\ ap[p].exc = "none"
          /\ ap[p].result \notin {"WriteError", "MakedirsError", "LockError"}

\* What the claim assumes, read at its widest: besides, no cleanup of a marker
\* (os.close, os.unlink) fails.
C20_Assumed == C20_Base /\ \A p \in Procs : ~ap[p].swallowed

\* The token the launcher hands on is taken for the argument of --token.
TokenAccepted == ~OptionLike(launch.token)

\* An earlier runner has left its marker: its cleanup failed.
MarkerLeft(p) == \E q \in Procs : q < p /\ ap[q].swallowed
Served == {p \in Procs : ~MarkerLeft(p)}

\* No append has waited or timed out, every runner that has exited did so with
\* code 0, the lines of the file are in block order, and a finished launcher
\* has left M*P*I of them.
EndToEndGood ==
    /\ \A p \in Procs :
          /\ ap[p].pc # "sleep"
          /\ ap[p].result # "TimeoutError"
          /\ run[p].pc = "exited" => run[p].code = 0
    /\ \A i \in 1..Len(SharedLines) : InBlockOrder(i)
    /\ launch.pc = "done" => Len(SharedLines) = Len(MODELS) * BlockLen

\* The same up to the first runner whose cleanup fails, that runner included;
\* every runner after it finds the marker, never gets it, adds no line and,
\* once it has exited, has done so with code 2 after the TimeoutError.
GoodUntilMarkerLeft ==
    /\ \A p \in Procs :
          IF MarkerLeft(p)
          THEN /\ ~Holds(p)
               /\ ap[p].result \in {"none", "TimeoutError"}
               /\ run[p].pc \in {"append", "exited"} => lock[StampPath]
               /\ run[p].pc = "exited" =>
                      (run[p].code = 2 /\ ap[p].result = "TimeoutError")
               /\ \A i \in 1..Len(SharedLines) : SharedLines[i].by # p
          ELSE /\ ap[p].pc # "sleep"
               /\ ap[p].result # "TimeoutError"
               /\ run[p].pc = "exited" => run[p].code = 0
    /\ \A i \in 1..Len(SharedLines) : InBlockOrder(i)
    /\ launch.pc = "done" => Len(SharedLines) = Cardinality(Served) * BlockLen

\* Every runner that has exited did so with code 2 at parse_args; none has
\* called append_jsonl, and neither the file nor a marker exists.
AllRefused ==
    /\ \A p \in Procs :
          /\ run[p].pc \in {"idle", "import", "parse", "exited"}
          /\ run[p].pc = "exited" => (run[p].code = 2 /\ run[p].why = "usage")
          /\ ap[p].pc = "idle"
    /\ ~file[StampPath].exists
    /\ ~lock[StampPath]

\* C20 as stated: under its assumptions the runners never wait for the marker,
\* all exit with 0 and the lines are grouped by model in list order, M*P*I in
\* all once the launcher has finished, which it does in the end.
C20_Original ==
    /\ [](C20_Assumed => EndToEndGood)
    /\ <>(launch.pc = "done" \/ ~C20_Assumed)

\* C20 amended: with no marker at the start, no crash and no failing write,
\* (a) when HF_TOKEN is taken for the argument of --token by the runner's
\* parser, the runners never wait, exit with 0 and leave their blocks in list
\* order, up to and including the first runner whose cleanup of the marker
\* fails (if any): the runners after that one time out, exit with 2 and add
\* nothing, so with no failing cleanup the file ends with M*P*I lines;
\* (b) when HF_TOKEN is taken for an option, every runner exits with 2 at
\* parse_args and the file is never created; the launcher finishes in the end.
C20_EndToEnd ==
    /\ []((C20_Base /\ TokenAccepted) => GoodUntilMarkerLeft)
    /\ []((C20_Base /\ ~TokenAccepted) => AllRefused)
    /\ <>(launch.pc = "done" \/ ~C20_Base)

\* The launcher has finished a run in which no write and no cleanup failed but
\* the pipeline of the first runner raised on every call: every runner exited
\* with 0 and the file holds the M blocks.
C20_Witness ==
    /\ launch.pc = "done"
    /\ C20_Assumed /\ TokenAccepted
    /\ \A p \in Procs : run[p].code = 0
    /\ Len(SharedLines) = Len(MODELS) * BlockLen
    /\ SharedLines[1].text[2].response_text = GenerationFailed
    /\ SharedLines[BlockLen + 1].text[2].model = MODELS[2]

====
